---- MODULE Spec2Model ----
(***************************************************************************)
(* Model of the A1 agent controller: AgentLoop (controller/loop.py), the   *)
(* ToolPolicy it drives (controller/policy.py), the strategy parser        *)
(* (controller/parser.py) and the forked executor's result parsing         *)
(* (tools/concrete_execution.py).                                          *)
(*                                                                         *)
(* One run of AgentLoop.run is one behaviour.  The steps are the code      *)
(* between two suspension points (await): a Reasoner call, a tool call     *)
(* made through the policy, the wait for the forked child process.         *)
(*                                                                         *)
(* Further specifications of the module, each about one component while    *)
(* the others stay as constructed: CacheSpec (tools/cache.py, callers      *)
(* interleaving at the SQL statements), OracleSpec (one call of            *)
(* ProfitOracle.analyze), ProxySpec (one call of ProxyResolver.resolve),   *)
(* FixedSpec (AgentLoop.run with the policy in fixed-sequence mode),       *)
(* ParserSpec (StrategyParser.parse), ForgeSpec (one call of               *)
(* ConcreteExecution.execute), SanitizerSpec (extract_minimal_source),     *)
(* DexSpec (DexAggregator.get_quote and get_quote_exact_out), BatchSpec    *)
(* (run_batch_experiments) and ExtractorSpec                               *)
(* (ConstructorExtractor._extract_constructor_args).                       *)
(***************************************************************************)
EXTENDS Integers, Sequences, FiniteSets, TLC

\* ------------------------------------------------------------------ bounds
\* max_turns argument of AgentLoop.__init__ ranges over 0..MaxTurnsArg
MaxTurnsArg == 2
\* settings.max_turns (A1_MAX_TURNS) ranges over 1..MaxSettingsTurns
MaxSettingsTurns == 1
\* max_calls_per_turn of the policy ranges over 1..MaxCallsPerTurn (loop.py
\* line 76: a max_tool_calls of 0 or None selects settings.max_tool_calls)
MaxCallsPerTurn == 1
\* work the model follows in one run: tool calls the Reasoner emits plus
\* strategies handed to the forked executor (the code has no such cap)
MaxWork == 2
\* base-token value of one unit of a non-base token
TokenRate == 1

\* the Cache clock runs over 0..MaxTime ticks
MaxTime == 3
\* the ttl argument of Cache.set ranges over 0..MaxTtl seconds
MaxTtl == 1

\* balance_changes given to ProfitOracle.analyze has up to MaxChanges items
MaxChanges == 2
\* a DEX quote answers with an amount in 0..MaxQuote
MaxQuote == 1

\* the address given to ProxyResolver.resolve shows up to MaxShapes proxy
\* patterns at once
MaxShapes == 2

\* the queue given to ToolPolicy.set_fixed_sequence has 1..MaxQueue entries
MaxQueue == 2

\* a response holds up to MaxBlocks fenced code blocks
MaxBlocks == 2
\* a code block is 1..MaxBlockLen characters long
MaxBlockLen == 2

\* a contract names up to MaxInherits parents after `is`
MaxInherits == 1

\* a batch names 1..MaxTargets targets
MaxTargets == 2
\* a batch names 1..MaxModels models
MaxModels == 2
\* --parallel is 1..MaxParallel
MaxParallel == 2

\* creation input and deployed code have 0..MaxHexLen hex characters
MaxHexLen == 130

\* ------------------------------------------------------------- vocabulary
None == "None"

\* names a tool call can carry: one registered tool, one unregistered name
RegisteredTools == {"source_code_fetcher"}
UnknownTools == {"no_such_tool"}
ToolNames == RegisteredTools \cup UnknownTools

\* what the underlying tool does when its execute is awaited
ToolOutcomes == {"ok", "raise"}

\* content of an assistant message: absent, prose without a code block,
\* a solidity block the validator accepts, a solidity block it repairs
Contents == {None, "prose", "block_valid", "block_issues"}

\* exception texts
ToolExcText == "tool exploded"
LLMExcText == "llm transport error"
ParserExcText == "parser error"
CtorExcText == "No RPC URL for chain"

BASE == "BASE"
TKN == "TKN"
Tokens == {BASE, TKN}
\* balance deltas the generated test can print: a loss, no change, a gain
Deltas == {0 - 1, 0, 1}

\* all sequences over S of length lo..hi
SeqsUpTo(S, lo, hi) == UNION {[1..n -> S] : n \in lo..hi}

\* the assistant messages the Reasoner returns: the names of the tool calls
\* and the kind of content; a message that carries tool calls has no content
\* or a valid solidity block
Responses ==
    {r \in SeqsUpTo(ToolNames, 0, MaxWork) \X Contents :
        r[1] = <<>> \/ r[2] \in {None, "block_valid"}}

VARIABLES
    max_turns_arg,      \* the max_turns argument given to AgentLoop.__init__
    max_turns,          \* self.max_turns
    max_calls_per_turn, \* policy.max_calls_per_turn
    mode,               \* policy.mode
    fixed_sequence,     \* policy.fixed_sequence
    sequence_index,     \* policy.sequence_index
    tool_defs,          \* _run_turn: tool_defs, what generate is given as tools
    pc,                 \* position of run: see the actions
    turn,               \* loop variable of run
    messages,           \* ctx.messages, the transcript
    tool_results,       \* ctx.tool_results, domain = cache keys
    strategies_tried,   \* ctx.strategies_tried
    best_profit,        \* ctx.best_profit
    best_strategy,      \* ctx.best_strategy
    calls_this_turn,    \* policy.calls_this_turn
    total_calls,        \* policy.total_calls
    response,           \* _run_turn: the latest assistant message
    tc_index,           \* _run_turn: position of the for loop over tool_calls
    tool_calls_made,    \* _run_turn: tool_calls_made
    tokens_used,        \* _run_turn: tokens_used
    strategy_code,      \* _run_turn: strategy_code handed to the executor
    turns,              \* run: turns
    total_tokens,       \* run: total_tokens
    total_tool_calls,   \* run: total_tool_calls
    result,             \* what run returned (a LoopResult) or raised
    closed,             \* _cleanup ran: tool clients and the LLM client closed
    workspace,          \* the executor's temporary directory
    child,              \* the forked child process
    next_id,            \* ids the Reasoner has handed out so far
    generate_calls,     \* history: generate calls made in the current turn
    tool_invocations,   \* history: tool.execute invocations in the current turn
    last_tool_result,   \* history: what the latest execute_tool returned
    last_exec,          \* history: details of the latest forked execution
    raised_exc,         \* history: text of the exception raised inside a turn
    cancelled           \* history: the run was cancelled

loop_vars == <<max_turns_arg, max_turns, max_calls_per_turn, mode,
               fixed_sequence, sequence_index, tool_defs, pc, turn, messages,
          tool_results, strategies_tried, best_profit, best_strategy,
          calls_this_turn, total_calls, response, tc_index, tool_calls_made,
          tokens_used, strategy_code, turns, total_tokens, total_tool_calls,
          result, closed, workspace, child, next_id, generate_calls,
               tool_invocations, last_tool_result, last_exec, raised_exc,
               cancelled>>

\* the process-wide Cache (tools/cache.py) and its callers
VARIABLES
    store,              \* the rows of table cache, by key
    now,                \* time.time(), in ticks
    callers,            \* position of each caller inside Cache.get
    last_set,           \* history: the value given to the latest set, by key
    cache_op            \* history: the latest Cache step and what it returned

cache_vars == <<store, now, callers, last_set, cache_op>>

\* one call of ProfitOracle.analyze (tools/profit_oracle.py)
VARIABLES
    oracle_changes,     \* the argument: the items of the dict, in its order
    oracle_i,           \* position of the for loop of line 160
    report              \* the ProfitReport being built, and returned

oracle_vars == <<oracle_changes, oracle_i, report>>

\* one call of ProxyResolver.resolve (tools/proxy_resolver.py)
VARIABLES
    chain,              \* what a healthy node answers about each address
    rpc_down,           \* the node answers no request during this call
    proxy_req,          \* the arguments: address, resolve_nested
    frames,             \* the stack of resolve calls, the running one last
    proxy_result        \* what the outermost resolve returned or raised

proxy_vars == <<chain, rpc_down, proxy_req, frames, proxy_result>>

\* one call of StrategyParser.parse (controller/parser.py)
VARIABLES
    matches,            \* parse: the fenced code blocks found in the response
    parsed_strategy              \* what parse returned

parser_vars == <<matches, parsed_strategy>>

\* one call of ConcreteExecution.execute (tools/concrete_execution.py)
VARIABLES
    forge_pc,           \* execute: "idle", "waiting", "returned" or "raised"
    forge_launch,       \* how the launch of the child went
    forge_child,        \* the child process
    forge_output,       \* what the child printed and returned
    forge_result        \* the ToolResult execute returned

forge_vars ==
    <<forge_pc, forge_launch, forge_child, forge_output, forge_result>>

\* one call of ASTAnalyzer.extract_minimal_source (tools/code_sanitizer.py)
VARIABLES
    graph,              \* analyze: inheritance and usages of each contract
    target_contract,    \* the argument
    san_pc,             \* "idle", "closure", "sort" or "done"
    required,           \* get_required_contracts: required
    to_process,         \* get_required_contracts: to_process
    unsorted,           \* _topological_sort: what `for name in contracts` has
                        \* not reached yet
    visit_stack,        \* _topological_sort: the calls of visit in progress
    visited,            \* _topological_sort: visited
    temp_mark,          \* _topological_sort: temp_mark
    ordered,            \* _topological_sort: result
    parts               \* extract_minimal_source: the contracts emitted

sanitizer_vars ==
    <<graph, target_contract, san_pc, required, to_process, unsorted,
      visit_stack, visited, temp_mark, ordered, parts>>

\* one call of DexAggregator.get_quote or get_quote_exact_out
\* (tools/dex_aggregator.py)
VARIABLES
    dex_request,        \* which of the two calls, token_in and token_out
    dex_answers,        \* history: what each router call did, in call order
    best_quote,         \* best_quote of the call
    dex_result          \* the quote returned or the ValueError raised

dex_vars == <<dex_request, dex_answers, best_quote, dex_result>>

\* one call of run_batch_experiments (experiments/run_batch.py)
VARIABLES
    parallel,           \* the argument
    experiments,        \* the experiment matrix
    batch_pc,           \* "idle", "running" or "returned"
    semaphore,          \* the value of asyncio.Semaphore(parallel)
    task_state,         \* per experiment: "created", "running" or "done"
    task_results,       \* per experiment: what its run produced
    results             \* the list the batch ends with

batch_vars ==
    <<parallel, experiments, batch_pc, semaphore, task_state, task_results,
      results>>

\* one call of ConstructorExtractor._extract_constructor_args
\* (tools/constructor_extractor.py)
VARIABLES
    creation_code,      \* the argument: 0x prefix or not, and hex characters
    deployed_code,      \* the argument, likewise
    constructor_args    \* what the call returned

extractor_vars == <<creation_code, deployed_code, constructor_args>>

component_vars == <<cache_vars, oracle_vars, proxy_vars, parser_vars, forge_vars, sanitizer_vars, dex_vars, batch_vars, extractor_vars>>

vars == <<loop_vars, component_vars>>

ctx_vars == <<tool_results, strategies_tried, best_profit, best_strategy>>
policy_vars == <<calls_this_turn, total_calls>>
config_vars == <<max_turns_arg, max_turns, max_calls_per_turn, mode,
                 fixed_sequence, sequence_index>>
exec_vars == <<workspace, child, last_exec>>

\* ------------------------------------------------------------ data shapes
\* a1.tools.base.ToolResult (artifacts are never read by the controller)
ToolResult(summary, success, error, cache_key, details) ==
    [summary |-> summary, success |-> success, error |-> error,
     cache_key |-> cache_key, details |-> details]

\* ToolResult.details left at its default, the empty dict
NoDetails ==
    [empty |-> TRUE, returncode |-> 0, compile_success |-> FALSE,
     has_execution |-> FALSE, execution_success |-> FALSE, profit |-> 0,
     balance_changes |-> {}]

\* ToolResult.to_prompt
to_prompt(r) == IF ~r.success THEN "Error: " \o r.error ELSE r.summary

\* a1.llm.schema.Message
Message(role, content, tool_calls, tool_call_id, name) ==
    [role |-> role, content |-> content, tool_calls |-> tool_calls,
     tool_call_id |-> tool_call_id, name |-> name]

\* strategy source text: tag identifies the text the Reasoner wrote,
\* repaired tells whether fix_common_issues rewrote it
NoCode == [tag |-> 0 - 1, repaired |-> FALSE]

\* Message.content: kind is the text (or its abstraction), tag tells apart
\* the texts the Reasoner wrote in different turns
Content(kind, tag) == [kind |-> kind, tag |-> tag]

NoResponse == Message("assistant", Content(None, 0), <<>>, 0, None)

\* LoopResult; outcome tells whether run is still running, returned it, or
\* raised instead of returning
LoopResult(success, final_strategy, final_profit, trs, ttok, tcalls, error) ==
    [outcome |-> "returned", success |-> success,
     final_strategy |-> final_strategy, final_profit |-> final_profit,
     turns |-> trs, total_tokens |-> ttok, total_tool_calls |-> tcalls,
     error |-> error]

Running ==
    [outcome |-> "running", success |-> FALSE, final_strategy |-> NoCode,
     final_profit |-> 0, turns |-> <<>>, total_tokens |-> 0,
     total_tool_calls |-> 0, error |-> None]

Raised(exc) == [Running EXCEPT !.outcome = "raised", !.error = exc]

\* ----------------------------------------------------------- ToolPolicy
\* ToolPolicy.can_call_tool
can_call_tool(calls) == calls < max_calls_per_turn

\* ToolPolicy.should_use_tools
should_use_tools(t) ==
    IF mode = "agent_chosen" THEN TRUE
    ELSE IF mode = "fixed_sequence"
    THEN sequence_index < Len(fixed_sequence)
    ELSE TRUE

\* ToolPolicy.get_tool_definitions, as one value
tool_definitions == "tool definitions"

\* execute_tool without the budget test of line 87
execute_tool_unlimited(name, calls, outcome) ==
    IF name \notin RegisteredTools
    THEN [raised |-> FALSE, invoked |-> FALSE, calls |-> calls,
          result |-> ToolResult("Unknown tool", FALSE, "Tool not found",
                                "", NoDetails)]
    ELSE IF outcome = "raise"
    THEN [raised |-> FALSE, invoked |-> TRUE, calls |-> calls + 1,
          result |-> ToolResult("Tool execution failed", FALSE,
                                ToolExcText, "", NoDetails)]
    ELSE [raised |-> FALSE, invoked |-> TRUE, calls |-> calls + 1,
          result |-> ToolResult("summary of " \o name, TRUE, None,
                                name, NoDetails)]

\* execute_tool without the try/except of lines 98-106: the tool's
\* exception leaves execute_tool
execute_tool_propagating(name, calls, outcome) ==
    IF name \notin RegisteredTools
    THEN [raised |-> FALSE, invoked |-> FALSE, calls |-> calls,
          result |-> ToolResult("Unknown tool", FALSE, "Tool not found",
                                "", NoDetails)]
    ELSE IF ~(calls < max_calls_per_turn)
    THEN [raised |-> FALSE, invoked |-> FALSE, calls |-> calls,
          result |-> ToolResult("Tool call limit reached", FALSE,
                                "Call limit reached", "", NoDetails)]
    ELSE IF outcome = "raise"
    THEN [raised |-> TRUE, invoked |-> TRUE, calls |-> calls + 1,
          result |-> ToolResult("", FALSE, ToolExcText, "", NoDetails)]
    ELSE [raised |-> FALSE, invoked |-> TRUE, calls |-> calls + 1,
          result |-> ToolResult("summary of " \o name, TRUE, None,
                                name, NoDetails)]

\* ToolPolicy.execute_tool(name, arguments) with calls_this_turn = calls;
\* outcome is what the tool's execute does if it is awaited.  The value
\* tells the ToolResult, the new counter, whether tool.execute was invoked
\* and whether an exception left execute_tool.
execute_tool(name, calls, outcome) ==
    IF name \notin RegisteredTools
    THEN [raised |-> FALSE, invoked |-> FALSE, calls |-> calls,
          result |-> ToolResult("Unknown tool", FALSE, "Tool not found",
                                "", NoDetails)]
    ELSE IF ~can_call_tool(calls)
    THEN [raised |-> FALSE, invoked |-> FALSE, calls |-> calls,
          result |-> ToolResult("Tool call limit reached", FALSE,
                                "Call limit reached", "", NoDetails)]
    ELSE IF outcome = "raise"
    THEN [raised |-> FALSE, invoked |-> TRUE, calls |-> calls + 1,
          result |-> ToolResult("Tool execution failed", FALSE,
                                ToolExcText, "", NoDetails)]
    ELSE [raised |-> FALSE, invoked |-> TRUE, calls |-> calls + 1,
          result |-> ToolResult("summary of " \o name, TRUE, None,
                                name, NoDetails)]

\* ------------------------------------------------------- StrategyParser
\* StrategyParser.parse on the content kinds: prose has no fenced block
parse(content) ==
    IF content.kind \in {"block_valid", "block_issues"}
    THEN [found |-> TRUE, code |-> [tag |-> content.tag, repaired |-> FALSE],
          issues |-> content.kind = "block_issues"]
    ELSE [found |-> FALSE, code |-> NoCode, issues |-> FALSE]

\* StrategyParser.validate: is the list of issues non-empty
validate(parsed) == parsed.issues

\* StrategyParser.fix_common_issues
fix_common_issues(code) == [code EXCEPT !.repaired = TRUE]

\* ---------------------------------------------------- ConcreteExecution
\* what the child process printed, reduced to what _parse_result looks for.
\* printed: the generated test reached its log lines; then it prints the
\* marker, one BalanceChange per tracked token and the profit, which the
\* generated test computes as the delta of the base token.  When run()
\* reverts inside the try of line 264 its state changes are undone, so a
\* FAILED marker comes with deltas of 0.
ChildOutputs ==
    {[stderr_error |-> TRUE, returncode |-> 1, printed |-> FALSE,
      marker |-> "none", base_delta |-> 0, tkn_delta |-> 0]}
    \cup
    {[stderr_error |-> FALSE, returncode |-> rc, printed |-> FALSE,
      marker |-> "none", base_delta |-> 0, tkn_delta |-> 0] : rc \in {0, 1}}
    \cup
    {[stderr_error |-> FALSE, returncode |-> 0, printed |-> TRUE,
      marker |-> "FAILED", base_delta |-> 0, tkn_delta |-> 0]}
    \cup
    {[stderr_error |-> FALSE, returncode |-> 0, printed |-> TRUE,
      marker |-> "SUCCESS", base_delta |-> b, tkn_delta |-> t] :
        b \in Deltas, t \in Deltas}

\* _parse_result reading the markers of stdout before it looks at stderr
parse_result_markers_first(out) ==
    LET execution_success ==
            IF out.marker = "SUCCESS" THEN TRUE
            ELSE IF out.marker = "FAILED" THEN FALSE
            ELSE out.returncode = 0
    IN ToolResult(
           IF execution_success THEN "Execution SUCCESS"
                                ELSE "Execution FAILED",
           execution_success,
           IF execution_success THEN None ELSE "revert reason",
           "",
           [empty |-> FALSE, returncode |-> out.returncode,
            compile_success |-> ~out.stderr_error, has_execution |-> TRUE,
            execution_success |-> execution_success,
            profit |-> IF out.printed THEN out.base_delta ELSE 0,
            balance_changes |-> {}])

\* ConcreteExecution._parse_result
parse_result(out) ==
    IF out.stderr_error
    THEN ToolResult("Compilation failed", FALSE, "Compilation failed", "",
            [empty |-> FALSE, returncode |-> out.returncode,
             compile_success |-> FALSE, has_execution |-> FALSE,
             execution_success |-> FALSE, profit |-> 0,
             balance_changes |-> {}])
    ELSE LET execution_success ==
                 IF out.marker = "SUCCESS" THEN TRUE
                 ELSE IF out.marker = "FAILED" THEN FALSE
                 ELSE out.returncode = 0
             profit == IF out.printed THEN out.base_delta ELSE 0
             balance_changes ==
                 IF out.printed
                 THEN {<<BASE, out.base_delta>>, <<TKN, out.tkn_delta>>}
                 ELSE {}
         IN ToolResult(
                IF execution_success THEN "Execution SUCCESS"
                                     ELSE "Execution FAILED",
                execution_success,
                IF execution_success THEN None ELSE "revert reason",
                "",
                [empty |-> FALSE, returncode |-> out.returncode,
                 compile_success |-> TRUE, has_execution |-> TRUE,
                 execution_success |-> execution_success,
                 profit |-> profit, balance_changes |-> balance_changes])

\* PromptBuilder.build_follow_up_prompt: which template is used
build_follow_up_prompt(details) ==
    IF ~details.empty /\ ~details.compile_success THEN "FOLLOW_UP_COMPILE_ERROR"
    ELSE IF details.has_execution /\ details.execution_success
    THEN "FOLLOW_UP_SUCCESS"
    ELSE "FOLLOW_UP_FAILURE"

\* ------------------------------------------------------------ AgentLoop
\* AgentLoop.run, the success test of a finished turn
IsSuccess(details) ==
    /\ ~details.empty
    /\ details.has_execution /\ details.execution_success
    /\ details.profit > 0

\* the update with the assignment of line 142 forgotten
NewBest_strategy_only(bp, bs, profit, code) ==
    IF profit > bp THEN [profit |-> bp, strategy |-> code]
    ELSE [profit |-> bp, strategy |-> bs]

\* the update with the comparison of line 141 inverted
NewBest_inverted(bp, bs, profit, code) ==
    IF profit < bp THEN [profit |-> profit, strategy |-> code]
    ELSE [profit |-> bp, strategy |-> bs]

\* AgentLoop.run, the update of the best-known pair on a successful turn
NewBest(bp, bs, profit, code) ==
    IF profit > bp THEN [profit |-> profit, strategy |-> code]
    ELSE [profit |-> bp, strategy |-> bs]

\* the reply put in front of the transcript
append_tool_reply_front(msgs, tc, tool_result) ==
    <<Message("tool", Content(to_prompt(tool_result), 0), <<>>, tc.id,
              tc.name)>> \o msgs

\* AgentLoop._run_turn lines 209-217: the tool-role reply bound to the id of
\* the tool call is appended to ctx.messages
append_tool_reply(msgs, tc, tool_result) ==
    Append(msgs, Message("tool", Content(to_prompt(tool_result), 0), <<>>,
                         tc.id, tc.name))

\* AgentLoop._cleanup: closes every tool that has a close and the LLM client
cleanup == closed' = TRUE

\* run without the except clause of lines 167-177: the exception leaves run
ReturnError_reraise(text) ==
    /\ result' = Raised(text)
    /\ pc' = "raised"
    /\ raised_exc' = text
    /\ cleanup

\* AgentLoop.run lines 167-177: an exception caught by `except Exception`
ReturnError(text) ==
    /\ result' = LoopResult(FALSE, best_strategy, best_profit, turns,
                            total_tokens, total_tool_calls, text)
    /\ pc' = "returned"
    /\ raised_exc' = text
    /\ cleanup

\* AgentLoop.run lines 132-153: the turn returned a TurnResult
FinishTurn(msgs, tcm, tokens, code, details) ==
    LET tr == [turn |-> turn, n_messages |-> Len(msgs), tool_calls |-> tcm,
               strategy_code |-> code, execution_result |-> details,
               tokens_used |-> tokens]
        nb == NewBest(best_profit, best_strategy, details.profit, code)
    IN /\ messages' = msgs
       /\ tool_calls_made' = tcm
       /\ tokens_used' = tokens
       /\ turns' = Append(turns, tr)
       /\ total_tokens' = total_tokens + tokens
       /\ total_tool_calls' = total_tool_calls + Len(tcm)
       /\ IF IsSuccess(details)
          THEN /\ best_profit' = nb.profit
               /\ best_strategy' = nb.strategy
               /\ result' = LoopResult(TRUE, nb.strategy, nb.profit, turns',
                                       total_tokens', total_tool_calls', None)
               /\ pc' = "returned"
               /\ turn' = turn
               /\ cleanup
          ELSE /\ pc' = "for"
               /\ turn' = turn + 1
               /\ UNCHANGED <<best_profit, best_strategy, result, closed>>

\* AgentLoop._run_turn lines 254-277: the forked execution returned exec_result
AfterExecute(exec_result) ==
    /\ last_exec' = exec_result.details
    /\ strategies_tried' = Append(strategies_tried, strategy_code)
    /\ FinishTurn(
          Append(messages,
                 Message("user",
                         Content(build_follow_up_prompt(exec_result.details),
                                 turn),
                         <<>>, 0, None)),
          Append(tool_calls_made,
                 [tool |-> "concrete_execution",
                  success |-> exec_result.success,
                  error |-> exec_result.error]),
          tokens_used, strategy_code, exec_result.details)

\* ---------------------------------------------------------------- Cache
\* time.time() is a float and created_at its integer part: the clock of the
\* model counts ticks, TicksPerSecond of them to a second
TicksPerSecond == 2

CacheKeys == {"k1", "k2"}
CacheCallers == {1, 2}

\* values handed to Cache.set: a dict of JSON types only, and a dict that
\* holds a tuple, which json.dumps writes as an array
CacheValues == {"dict", "dict_with_tuple"}

\* settings.cache_ttl (A1_CACHE_TTL), in seconds
settings_cache_ttl == 1

\* no row for the key
Absent == [present |-> FALSE, value |-> None, created_at |-> 0, ttl |-> 0]

\* json.dumps(value): the text stored in column value
json_dumps(v) == IF v = "dict_with_tuple" THEN "{..[..]..}" ELSE "{....}"

\* json.loads(text)
json_loads(text) == IF text = "{..[..]..}" THEN "dict_with_list" ELSE "dict"

\* int(time.time())
int_time(t) == t \div TicksPerSecond

\* the expiry test with >= in place of >
get_expired_at_or_after(row, t) ==
    t >= (row.created_at + row.ttl) * TicksPerSecond

\* Cache.get line 55: time.time() > created_at + ttl
get_expired(row, t) == t > (row.created_at + row.ttl) * TicksPerSecond

\* Cache.cleanup_expired line 92: created_at + ttl < int(time.time())
cleanup_matches(row, t) == row.created_at + row.ttl < int_time(t)

\* the step a caller of the Cache is at: between two calls
CallerIdle == [pc |-> "idle", key |-> None]

NoCacheOp == [op |-> "none", caller |-> 0, key |-> None, ret |-> None]

CacheOp(op, c, k, ret) == [op |-> op, caller |-> c, key |-> k, ret |-> ret]

\* the Cache right after _init_db on an empty directory
CacheIdle ==
    /\ store = [k \in CacheKeys |-> Absent]
    /\ now = 0
    /\ callers = [c \in CacheCallers |-> CallerIdle]
    /\ last_set = [k \in CacheKeys |-> None]
    /\ cache_op = NoCacheOp

\* ---------------------------------------------------------- ProfitOracle
\* self.base_token as the chain configuration spells it, and the keys a
\* balance_changes dict can have: the base token in two spellings, a token
base_token == "0xBaSe"
OracleKeys == {"0xBaSe", "0xbase", "0xtkn"}

\* str.lower
lower(t) ==
    CASE t = "0xBaSe" -> "0xbase"
      [] t = "Strategy" -> "strategy"
      [] OTHER -> t

\* a value of balance_changes (lines 162-169): an int delta, or a dict
\* {before, after}
Changes ==
    {[is_dict |-> FALSE, before |-> 0, after |-> d] : d \in Deltas}
    \cup
    {[is_dict |-> TRUE, before |-> b, after |-> a] : b \in 0..1, a \in 0..1}

\* the dicts analyze can be given: items in insertion order, keys distinct
BalanceChanges ==
    {bc \in SeqsUpTo(OracleKeys \X Changes, 0, MaxChanges) :
        \A i \in 1..Len(bc), j \in 1..Len(bc) : i # j => bc[i][1] # bc[j][1]}

\* what a DEX quote does: raises (no route, RPC failure) or gives an amount
QuoteOutcomes ==
    {[raised |-> TRUE, amount |-> 0]}
    \cup {[raised |-> FALSE, amount |-> a] : a \in 0..MaxQuote}

\* the cost charged for a deficit that cannot be priced (2**128 in line 191;
\* any amount above every sum of quotes behaves alike)
UnpricedDeficit == 1000

\* ProfitReport as constructed in lines 151-156
NewReport ==
    [token_deltas |-> <<>>, base_token_delta |-> 0, surplus_value |-> 0,
     deficit_cost |-> 0, raw_profit |-> 0, gross_profit |-> 0,
     net_profit |-> 0, is_profitable |-> FALSE,
     all_balances_preserved |-> TRUE, prices_unavailable |-> 0,
     confidence_num |-> 1, confidence_den |-> 1, returned |-> FALSE]

\* abs
abs(x) == IF x < 0 THEN 0 - x ELSE x

\* lines 162-169: the delta of one item
delta_of(change) ==
    IF change.is_dict THEN change.after - change.before ELSE change.after

\* lines 175-193: value_in_base of one item, given what the quote does
value_in_base(token, delta, quote) ==
    IF delta # 0 /\ lower(token) # lower(base_token)
    THEN IF quote.raised
         THEN (IF delta > 0 THEN 0 ELSE 0 - UnpricedDeficit)
         ELSE (IF delta > 0 THEN quote.amount ELSE 0 - quote.amount)
    ELSE IF lower(token) = lower(base_token) THEN delta
    ELSE 0

\* lines 195-216: the TokenDelta is appended and the item classified
classify(r, token, delta, value, unpriced) ==
    LET r1 == [r EXCEPT !.token_deltas =
                   Append(@, [address |-> token, delta |-> delta,
                              value_in_base |-> value]),
                        !.prices_unavailable =
                           @ + (IF unpriced THEN 1 ELSE 0)]
    IN IF lower(token) = lower(base_token)
       THEN [r1 EXCEPT !.base_token_delta = delta]
       ELSE IF delta > 0
       THEN [r1 EXCEPT !.surplus_value = @ + value]
       ELSE IF delta < 0
       THEN [r1 EXCEPT !.deficit_cost = @ + abs(value),
                       !.all_balances_preserved = FALSE]
       ELSE r1

\* the final lines with the deficit cost left out of the net profit
finish_report_gross_only(r, n_tokens) ==
    LET gross == r.base_token_delta + r.surplus_value
    IN [r EXCEPT !.raw_profit = r.base_token_delta,
                 !.gross_profit = gross,
                 !.net_profit = gross,
                 !.is_profitable = gross > 0,
                 !.returned = TRUE]

\* lines 218-234: the profits, the verdict and the confidence, kept as the
\* fraction confidence_num / confidence_den
finish_report(r, n_tokens) ==
    LET gross == r.base_token_delta + r.surplus_value
        net == gross - r.deficit_cost
    IN [r EXCEPT !.raw_profit = r.base_token_delta,
                 !.gross_profit = gross,
                 !.net_profit = net,
                 !.is_profitable = net > 0,
                 !.confidence_num =
                     IF n_tokens > 0
                     THEN n_tokens - r.prices_unavailable ELSE @,
                 !.confidence_den =
                     IF n_tokens > 0 THEN n_tokens ELSE @,
                 !.returned = TRUE]

\* no call of analyze
OracleIdle ==
    /\ oracle_changes = <<>>
    /\ oracle_i = 0
    /\ report = NewReport

\* --------------------------------------------------------- ProxyResolver
\* addresses as 20 bytes of lowercase hex, and the zero address
Addrs == {"0xaa", "0xbb", "0xcc"}
ZERO == "0x00"

\* w3.to_checksum_address on a valid address: the EIP-55 spelling
to_checksum_address(a) ==
    CASE a \in {"0xaa", "0xAA"} -> "0xAA"
      [] a \in {"0xbb", "0xBB"} -> "0xBB"
      [] a \in {"0xcc", "0xCC"} -> "0xCC"
      [] OTHER -> a

\* the lowercase spelling of an address
to_lower_address(a) ==
    CASE a \in {"0xaa", "0xAA"} -> "0xaa"
      [] a \in {"0xbb", "0xBB"} -> "0xbb"
      [] a \in {"0xcc", "0xCC"} -> "0xcc"
      [] OTHER -> a

\* strings resolve can be given as address: both spellings, and a string
\* to_checksum_address rejects
RequestAddresses == {"0xaa", "0xAA", "not an address"}

\* what can be found at an address: a non-zero EIP-1967 implementation
\* slot, a non-zero EIP-1967 beacon slot, code that is exactly the EIP-1167
\* pattern, code that starts with the EIP-1167 prefix and 20 bytes but goes on
\* with something else than the suffix, a non-zero known custom slot, an
\* implementation getter that answers
ProxyShapes == {"impl_slot", "beacon_slot", "minimal_code", "prefix_code",
                "custom_slot", "getter"}

\* the methods class RPCClient defines (chain/rpc.py lines 48-134)
RPCClientMethods == {"eth_call", "get_code", "get_storage_at",
                     "get_block_number", "batch_call", "call_view_function",
                     "get_balance", "close"}

\* ProxyInfo(address=address, proxy_type=ProxyType.NONE)
ProxyInfo(address) ==
    [address |-> address, proxy_type |-> "none",
     implementation_address |-> None, beacon_address |-> None,
     admin_address |-> None, nested_implementations |-> <<>>,
     detection_method |-> "", confidence_tenths |-> 10]

\* max_depth of resolve (line 130)
max_depth_default == 5

\* the word a healthy node answers for a storage slot of an address
storage_word(a, shape) ==
    IF shape \in chain[to_lower_address(a)].shapes
    THEN chain[to_lower_address(a)].target
    ELSE ZERO

\* the code a healthy node answers for an address
code_at(a) ==
    LET c == chain[to_lower_address(a)]
    IN IF "minimal_code" \in c.shapes
       THEN [prefix |-> TRUE, body |-> c.target, suffix |-> TRUE]
       ELSE IF "prefix_code" \in c.shapes
       THEN [prefix |-> TRUE, body |-> c.target, suffix |-> FALSE]
       ELSE [prefix |-> FALSE, body |-> ZERO, suffix |-> FALSE]

\* _read_storage_slot: self.rpc.eth_get_storage_at is looked up on the
\* RPCClient; a missing attribute, like a failed request, raises inside the
\* try and None is returned
read_storage_slot(a, shape) ==
    IF "eth_get_storage_at" \notin RPCClientMethods \/ rpc_down
    THEN None
    ELSE to_checksum_address(storage_word(a, shape))

\* the eth_call of an implementation getter (also on a beacon): the address
\* in the answer, None when the call raises or answers nothing
call_getter(a) ==
    IF "eth_call" \notin RPCClientMethods \/ rpc_down THEN None
    ELSE IF "getter" \in chain[to_lower_address(a)].shapes
    THEN chain[to_lower_address(a)].target
    ELSE None

\* _get_beacon_implementation
get_beacon_implementation(beacon) ==
    LET impl == call_getter(beacon)
    IN IF impl # None /\ impl # ZERO THEN to_checksum_address(impl) ELSE None

\* _try_eip1967
try_eip1967(address) ==
    LET info == ProxyInfo(address)
        impl_addr == read_storage_slot(address, "impl_slot")
        admin_addr == read_storage_slot(address, "admin_slot")
        beacon_addr == read_storage_slot(address, "beacon_slot")
    IN IF impl_addr # None /\ impl_addr # ZERO
       THEN [info EXCEPT !.proxy_type = "eip1967_transparent",
                         !.implementation_address = impl_addr,
                         !.detection_method = "EIP-1967 implementation slot",
                         !.admin_address =
                             IF admin_addr # None /\ admin_addr # ZERO
                             THEN admin_addr ELSE None]
       ELSE IF beacon_addr # None /\ beacon_addr # ZERO
       THEN [info EXCEPT !.proxy_type = "eip1967_beacon",
                         !.beacon_address = beacon_addr,
                         !.detection_method = "EIP-1967 beacon slot",
                         !.implementation_address =
                             get_beacon_implementation(beacon_addr)]
       ELSE info

\* _try_eip1167: self.rpc.eth_get_code is looked up inside the try; the
\* code is matched by its prefix and its length only
try_eip1167(address) ==
    LET info == ProxyInfo(address)
        code == code_at(address)
    IN IF "eth_get_code" \notin RPCClientMethods \/ rpc_down THEN info
       ELSE IF code.prefix
       THEN [info EXCEPT !.proxy_type = "eip1167_minimal",
                         !.implementation_address =
                             to_checksum_address(code.body),
                         !.detection_method = "EIP-1167 bytecode pattern"]
       ELSE info

\* _try_custom_slots: the slots of CUSTOM_IMPL_SLOTS are read in order
try_custom_slots(address) ==
    LET info == ProxyInfo(address)
        impl_addr == read_storage_slot(address, "custom_slot")
    IN IF impl_addr # None /\ impl_addr # ZERO
       THEN [info EXCEPT !.proxy_type = "custom_slot",
                         !.implementation_address = impl_addr,
                         !.detection_method = "Custom storage slot",
                         !.confidence_tenths = 8]
       ELSE info

\* _try_implementation_function: the getters are called in order; an
\* answer counts when self.rpc.eth_get_code finds code at the address
try_implementation_function(address) ==
    LET info == ProxyInfo(address)
        impl_addr == call_getter(address)
    IN IF impl_addr = None \/ impl_addr = ZERO THEN info
       ELSE IF "eth_get_code" \notin RPCClientMethods THEN info
       ELSE [info EXCEPT !.proxy_type = "uups",
                         !.implementation_address =
                             to_checksum_address(impl_addr),
                         !.detection_method = "Function call"]

\* resolve lines 151-155: the caller takes over what the nested call found
merge_nested(info, nested_info) ==
    IF nested_info.proxy_type = "none" THEN info
    ELSE IF nested_info.implementation_address = None
    THEN [info EXCEPT !.nested_implementations =
                          Append(@, info.implementation_address)]
    ELSE [info EXCEPT !.nested_implementations =
                          Append(@, info.implementation_address)
                            \o nested_info.nested_implementations,
                      !.implementation_address =
                          nested_info.implementation_address]

\* one call of resolve: its arguments, where it is, the info it holds
Frame(address, resolve_nested, max_depth) ==
    [address |-> address, resolve_nested |-> resolve_nested,
     max_depth |-> max_depth, pc |-> "eip1967", info |-> ProxyInfo(address)]

NoProxyResult == [outcome |-> "running", info |-> ProxyInfo(None)]

\* no call of resolve
ProxyIdle ==
    /\ chain = [a \in Addrs |-> [shapes |-> {}, target |-> ZERO]]
    /\ rpc_down = FALSE
    /\ proxy_req = [address |-> None, resolve_nested |-> FALSE]
    /\ frames = <<>>
    /\ proxy_result = NoProxyResult

\* ------------------------------------------------- StrategyParser.parse
\* names a code block can declare contracts with
ContractNames == {"Strategy", "strategy", "Helper"}

\* what SOLIDITY_BLOCK_PATTERN.findall gives for one block, reduced to its
\* length and to what CONTRACT_PATTERN.findall finds in it, in order
CodeBlocks ==
    [len : 1..MaxBlockLen, contracts : SeqsUpTo(ContractNames, 0, 2)]

\* max(matches, key=len): the position of the first item no other item is
\* longer than
max_by_len(ms) ==
    CHOOSE i \in 1..Len(ms) :
        /\ \A j \in 1..Len(ms) : ms[j].len <= ms[i].len
        /\ \A j \in 1..(i - 1) : ms[j].len < ms[i].len

\* parse lines 58-62: the first name that is "strategy" in lower case, else
\* the default
first_strategy_name(contract_matches) ==
    LET hits == {i \in 1..Len(contract_matches) :
                    lower(contract_matches[i]) = "strategy"}
    IN IF hits = {} THEN "Strategy"
       ELSE contract_matches[CHOOSE i \in hits : \A j \in hits : i <= j]

\* parse lines 56-65: the contract name reported for a block
contract_name_of(contract_matches) ==
    LET contract_name == first_strategy_name(contract_matches)
    IN IF contract_matches # <<>> /\ contract_name = "Strategy"
       THEN contract_matches[Len(contract_matches)]
       ELSE contract_name

NotParsed ==
    [returned |-> FALSE, found |-> FALSE, block |-> 0, contract_name |-> None]

\* StrategyParser.parse lines 44-65: None without a block, else the block
\* selected (by its position) and its contract name
parse_response(ms) ==
    IF ms = <<>>
    THEN [returned |-> TRUE, found |-> FALSE, block |-> 0,
          contract_name |-> None]
    ELSE [returned |-> TRUE, found |-> TRUE, block |-> max_by_len(ms),
          contract_name |-> contract_name_of(ms[max_by_len(ms)].contracts)]

\* no call of parse
ParserIdle ==
    /\ matches = <<>>
    /\ parsed_strategy = NotParsed

\* ------------------------------------------- ConcreteExecution.execute
\* every returncode, stderr and stdout _parse_result can be handed
ForgeOutputs ==
    [stderr_error : BOOLEAN, returncode : {0, 1}, printed : BOOLEAN,
     marker : {"none", "SUCCESS", "FAILED"}, base_delta : Deltas,
     tkn_delta : Deltas]

NoOutput ==
    [stderr_error |-> FALSE, returncode |-> 0, printed |-> FALSE,
     marker |-> "none", base_delta |-> 0, tkn_delta |-> 0]

NoForgeResult == ToolResult("", FALSE, None, "", NoDetails)

\* how _run_forge gets to its child: the harness library is missing (line
\* 134), create_subprocess_exec raises because forge_bin is missing (line
\* 175), or the child runs
Launches == {"lib_missing", "binary_missing", "spawned"}

\* no call of execute
ForgeIdle ==
    /\ forge_pc = "idle"
    /\ forge_launch = None
    /\ forge_child = "none"
    /\ forge_output = NoOutput
    /\ forge_result = NoForgeResult

\* ------------------------------------------------------ ASTAnalyzer
\* the contracts the code defines (graph.contracts), and a parent that is
\* imported and not defined in the code
Entities == {"A", "B", "C"}
Imported == "Imported"

\* the contracts that may name the imported parent
Importing == {"C"}

Range(q) == {q[i] : i \in 1..Len(q)}

\* _extract_contracts lines 108-116 and _analyze_usages lines 202-223: the
\* parents of contract n in the order written, and usages[n], which holds
\* the parents and the other contracts the block refers to
ContractDeps(n) ==
    {[inherits |-> q, usages |-> Range(q) \cup x] :
        q \in {r \in SeqsUpTo(
                          (Entities \cup (IF n \in Importing THEN {Imported}
                                                             ELSE {})) \ {n},
                          0, MaxInherits) :
                 \A i, j \in 1..Len(r) : r[i] = r[j] => i = j},
        x \in SUBSET (Entities \ {n})}

\* graph.inheritance[name], when name is in graph.inheritance
inheritance_of(name) ==
    IF name \in Entities THEN graph[name].inherits ELSE <<>>

\* graph.usages[name], when name is in graph.usages
usages_of(name) ==
    IF name \in Entities THEN graph[name].usages ELSE {}

\* list.extend on to_process: a list adds its items in order, a set in an
\* order of its own; to_process is kept as the groups added, and pop() takes
\* any item of the last group
extend(stack, list, set) ==
    LET groups == [i \in 1..Len(list) |-> {list[i]}]
    IN stack \o groups \o (IF set = {} THEN <<>> ELSE <<set>>)

\* list.pop() returning item
pop(stack, item) ==
    LET n == Len(stack)
    IN IF stack[n] = {item} THEN SubSeq(stack, 1, n - 1)
       ELSE [stack EXCEPT ![n] = stack[n] \ {item}]

\* visit without its test of visited
visit_enter_unvisited(name, marks, stack) ==
    IF name \in marks
    THEN [temp_mark |-> marks, visit_stack |-> stack]
    ELSE [temp_mark |-> marks \cup {name},
          visit_stack |->
              Append(stack, [name |-> name,
                             inherits |-> inheritance_of(name),
                             usages |-> usages_of(name)])]

\* visit(name) lines 298-304 entered from a state with the given marks and
\* stack: the marks and the stack after the call has begun
visit_enter(name, marks, stack) ==
    IF name \in marks \/ name \in visited
    THEN [temp_mark |-> marks, visit_stack |-> stack]
    ELSE [temp_mark |-> marks \cup {name},
          visit_stack |->
              Append(stack, [name |-> name,
                             inherits |-> inheritance_of(name),
                             usages |-> usages_of(name)])]

\* no call of extract_minimal_source
SanitizerIdle ==
    /\ graph = [n \in Entities |-> [inherits |-> <<>>, usages |-> {}]]
    /\ target_contract = None
    /\ san_pc = "idle"
    /\ required = {}
    /\ to_process = <<>>
    /\ unsorted = {}
    /\ visit_stack = <<>>
    /\ visited = {}
    /\ temp_mark = {}
    /\ ordered = <<>>
    /\ parts = <<>>

\* ------------------------------------------------------ DexAggregator
\* self.dexes in the order of DEX_CONFIGS
dexes == <<"uniswap_v2", "sushiswap">>

\* self.intermediates: the base token as the configuration spells it, then
\* the configured intermediates
intermediates == <<base_token, "0xtkn">>

\* tokens a quote is asked for
QuoteTokens == {"0xbase", "0xtkn", "0xusd"}

\* what eth_call on a router does: it raises (revert, RPC failure), returns
\* an empty result, or returns the amounts along the path, of which the call
\* reads one
RouterAnswers ==
    {[kind |-> "raises", amount |-> 0], [kind |-> "empty", amount |-> 0]}
    \cup {[kind |-> "amounts", amount |-> a] : a \in 0..MaxQuote}

\* the paths get_quote tries on one DEX, in order: the direct one, then one
\* through each intermediate that is neither token
paths_of(token_in, token_out) ==
    <<<<token_in, token_out>>>>
    \o SelectSeq([i \in 1..Len(intermediates) |->
                     <<token_in, intermediates[i], token_out>>],
                 LAMBDA path : lower(path[2]) \notin
                                   {lower(token_in), lower(token_out)})

\* the router calls of one get_quote, in order: every DEX, every path
RECURSIVE candidates_from(_, _, _)
candidates_from(d, token_in, token_out) ==
    IF d > Len(dexes) THEN <<>>
    ELSE [i \in 1..Len(paths_of(token_in, token_out)) |->
              [dex |-> dexes[d], path |-> paths_of(token_in, token_out)[i]]]
         \o candidates_from(d + 1, token_in, token_out)

candidates(req) == candidates_from(1, req.token_in, req.token_out)

NoQuote == [present |-> FALSE, amount |-> 0, dex |-> None, path |-> <<>>]

\* _get_quote_from_dex and _get_quote_exact_out_from_dex: None for an empty
\* result, else the quote with the amount read from the answer
quote_from_dex(candidate, answer) ==
    IF answer.kind = "empty" THEN NoQuote
    ELSE [present |-> TRUE, amount |-> answer.amount, dex |-> candidate.dex,
          path |-> candidate.path]

\* a quote always replacing best_quote
replaces_always(exact_out, q, best) == q.present

\* lines 189 and 238: `quote and (not best_quote or quote.amount_out >
\* best_quote.amount_out)`, with amount_in and < for an exact output
replaces(exact_out, q, best) ==
    /\ q.present
    /\ \/ ~best.present
       \/ IF exact_out THEN q.amount < best.amount
                       ELSE q.amount > best.amount

\* no call of get_quote
DexIdle ==
    /\ dex_request = [exact_out |-> FALSE, token_in |-> None,
                      token_out |-> None]
    /\ dex_answers = <<>>
    /\ best_quote = NoQuote
    /\ dex_result = "none"

\* ------------------------------------------------ run_batch_experiments
\* lines 61-65: every target with every model, targets outermost; targets
\* and models are named by their position in the lists given
experiment_matrix(n_targets, n_models) ==
    [i \in 1..(n_targets * n_models) |->
        [target |-> ((i - 1) \div n_models) + 1,
         model |-> ((i - 1) % n_models) + 1]]

\* run_single_experiment raises (unknown target, RPC failure) or returns
ExperimentOutcomes == {"raised", "success"}

NoResult == [target |-> 0, model |-> 0, success |-> FALSE, error |-> None]

\* lines 78-96 and 105-120: the result of one experiment, the dict of
\* run_single_experiment or the dict built by the except clause
experiment_result(experiment, outcome) ==
    [target |-> experiment.target, model |-> experiment.model,
     success |-> outcome = "success",
     error |-> IF outcome = "raised" THEN "str(e)" ELSE None]

\* a semaphore that is never locked
locked_never(value) == FALSE

\* asyncio.Semaphore.locked
locked(value) == value = 0

\* no call of run_batch_experiments
BatchIdle ==
    /\ parallel = 0
    /\ experiments = <<>>
    /\ batch_pc = "idle"
    /\ semaphore = 0
    /\ task_state = <<>>
    /\ task_results = <<>>
    /\ results = <<>>

\* ------------------------------------------------- ConstructorExtractor
\* the hex characters of a 32-byte word
WordHex == 64

\* a hex string: whether it starts with 0x, and how many characters follow
\* the prefix; the characters themselves are named by their positions
HexStrings == [has_0x : BOOLEAN, len : 0..MaxHexLen]

\* `not code`: the empty string
is_empty(code) == ~code.has_0x /\ code.len = 0

NotExtracted == [returned |-> FALSE, empty |-> TRUE, from |-> 0, to |-> 0]

\* the result "" and the result "0x" + creation[from:]
EmptyArgs == [returned |-> TRUE, empty |-> TRUE, from |-> 0, to |-> 0]
ArgsFrom(from, creation_len) ==
    [returned |-> TRUE, empty |-> FALSE, from |-> from, to |-> creation_len]

\* the walk with a boundary every two words
RECURSIVE walk_back_two_words(_, _, _)
walk_back_two_words(potential_args_start, creation_len, deployed_len) ==
    IF potential_args_start > deployed_len
    THEN IF (creation_len - potential_args_start) % (2 * WordHex) = 0
         THEN ArgsFrom(potential_args_start, creation_len)
         ELSE walk_back_two_words(potential_args_start - WordHex,
                                  creation_len, deployed_len)
    ELSE EmptyArgs

\* lines 259-264: the loop that walks backwards to an argument boundary
RECURSIVE walk_back(_, _, _)
walk_back(potential_args_start, creation_len, deployed_len) ==
    IF potential_args_start > deployed_len
    THEN IF (creation_len - potential_args_start) % WordHex = 0
         THEN ArgsFrom(potential_args_start, creation_len)
         ELSE walk_back(potential_args_start - WordHex, creation_len,
                        deployed_len)
    ELSE EmptyArgs

\* _extract_constructor_args; creation and deployed are the codes without
\* their prefix
extract_constructor_args(creation, deployed) ==
    IF is_empty(creation) \/ is_empty(deployed) THEN EmptyArgs
    ELSE IF creation.len > deployed.len
    THEN walk_back(creation.len - WordHex, creation.len, deployed.len)
    ELSE EmptyArgs

\* no call of _extract_constructor_args
ExtractorIdle ==
    /\ creation_code = [has_0x |-> FALSE, len |-> 0]
    /\ deployed_code = [has_0x |-> FALSE, len |-> 0]
    /\ constructor_args = NotExtracted

\* ------------------------------------------------------------ components
\* every component other than the one a specification is about stays as
\* constructed
ComponentsIdle == CacheIdle /\ OracleIdle /\ ProxyIdle /\ ParserIdle /\ ForgeIdle /\ SanitizerIdle /\ DexIdle /\ BatchIdle /\ ExtractorIdle

\* AgentLoop.__init__ and the first lines of run (96-128), the policy's
\* mode apart
LoopConstructed ==
    /\ max_turns_arg \in 0..MaxTurnsArg
    /\ \E settings_max_turns \in 1..MaxSettingsTurns :
           max_turns = IF max_turns_arg # 0 THEN max_turns_arg
                       ELSE settings_max_turns
    /\ max_calls_per_turn \in 1..MaxCallsPerTurn
    /\ pc = "for"
    /\ turn = 0
    /\ messages = <<Message("system", Content("SYSTEM_PROMPT", 0), <<>>, 0, None),
                    Message("user", Content("initial prompt", 0), <<>>, 0, None)>>
    /\ tool_results = {}
    /\ strategies_tried = <<>>
    /\ best_profit = 0
    /\ best_strategy = NoCode
    /\ calls_this_turn = 0
    /\ total_calls = 0
    /\ response = NoResponse
    /\ tc_index = 0
    /\ tool_calls_made = <<>>
    /\ tokens_used = 0
    /\ strategy_code = NoCode
    /\ turns = <<>>
    /\ total_tokens = 0
    /\ total_tool_calls = 0
    /\ result = Running
    /\ closed = FALSE
    /\ workspace = "none"
    /\ child = "none"
    /\ next_id = 0
    /\ generate_calls = 0
    /\ tool_invocations = 0
    /\ last_tool_result = ToolResult("", TRUE, None, "", NoDetails)
    /\ last_exec = NoDetails
    /\ raised_exc = None
    /\ cancelled = FALSE

\* ToolPolicy.__init__ as AgentLoop calls it: mode AGENT_CHOSEN
LoopInit ==
    /\ LoopConstructed
    /\ mode = "agent_chosen"
    /\ fixed_sequence = <<>>
    /\ sequence_index = 0
    /\ tool_defs = None

Init == LoopInit /\ ComponentsIdle

\* an AgentLoop that was constructed and is not run
LoopIdle == LoopInit /\ max_turns_arg = 1 /\ max_calls_per_turn = 1

\* the loop and every component but c are as constructed
OthersIdle(c) ==
    /\ LoopIdle
    /\ IF c = "cache" THEN TRUE ELSE CacheIdle
    /\ IF c = "oracle" THEN TRUE ELSE OracleIdle
    /\ IF c = "proxy" THEN TRUE ELSE ProxyIdle
    /\ IF c = "parser" THEN TRUE ELSE ParserIdle
    /\ IF c = "forge" THEN TRUE ELSE ForgeIdle
    /\ IF c = "sanitizer" THEN TRUE ELSE SanitizerIdle
    /\ IF c = "dex" THEN TRUE ELSE DexIdle
    /\ IF c = "batch" THEN TRUE ELSE BatchIdle
    /\ IF c = "extractor" THEN TRUE ELSE ExtractorIdle

\* a step of component c leaves the loop and the other components alone
OthersUnchanged(c) ==
    /\ UNCHANGED loop_vars
    /\ IF c = "cache" THEN TRUE ELSE UNCHANGED cache_vars
    /\ IF c = "oracle" THEN TRUE ELSE UNCHANGED oracle_vars
    /\ IF c = "proxy" THEN TRUE ELSE UNCHANGED proxy_vars
    /\ IF c = "parser" THEN TRUE ELSE UNCHANGED parser_vars
    /\ IF c = "forge" THEN TRUE ELSE UNCHANGED forge_vars
    /\ IF c = "sanitizer" THEN TRUE ELSE UNCHANGED sanitizer_vars
    /\ IF c = "dex" THEN TRUE ELSE UNCHANGED dex_vars
    /\ IF c = "batch" THEN TRUE ELSE UNCHANGED batch_vars
    /\ IF c = "extractor" THEN TRUE ELSE UNCHANGED extractor_vars

\* run line 130-131 and _run_turn lines 184-189: the next turn starts, the
\* policy's per-turn counter is reset, the first generate is awaited
RunTurn ==
    /\ pc = "for"
    /\ turn < max_turns
    /\ calls_this_turn' = 0
    /\ tool_calls_made' = <<>>
    /\ tokens_used' = 0
    /\ strategy_code' = NoCode
    /\ generate_calls' = 0
    /\ tool_invocations' = 0
    /\ tool_defs' = IF should_use_tools(turn) THEN tool_definitions ELSE None
    /\ pc' = "generate"
    /\ UNCHANGED component_vars
    /\ UNCHANGED <<config_vars, turn, messages, ctx_vars, total_calls,
                   response, tc_index, turns, total_tokens, total_tool_calls,
                   result, closed, exec_vars, next_id, last_tool_result,
                   raised_exc, cancelled>>

\* run lines 155-165 (and the finally clause): the for loop is exhausted
MaxTurnsReached ==
    /\ pc = "for"
    /\ ~(turn < max_turns)
    /\ result' = LoopResult(FALSE, best_strategy, best_profit, turns,
                            total_tokens, total_tool_calls,
                            "Max turns reached")
    /\ pc' = "returned"
    /\ cleanup
    /\ UNCHANGED component_vars
    /\ UNCHANGED tool_defs
    /\ UNCHANGED <<config_vars, turn, messages, ctx_vars, policy_vars,
                   response, tc_index, tool_calls_made, tokens_used,
                   strategy_code, turns, total_tokens, total_tool_calls,
                   exec_vars, next_id, generate_calls, tool_invocations,
                   last_tool_result, raised_exc, cancelled>>

\* _run_turn lines 191-198 and 227-232: generate returns an assistant message
\* with tool calls named names and content of the given kind; then the while
\* test of line 201 and, when the loop is left, lines 234-249 and 269-277.
\* exc: an exception raised by the parser or by the executor's constructor.
LLMGenerate(names, kind, usage, exc) ==
    /\ pc = "generate"
    /\ next_id + Len(names) + Len(strategies_tried) <= MaxWork
    /\ LET resp == Message("assistant", Content(kind, turn),
                           [i \in 1..Len(names) |->
                               [id |-> next_id + i, name |-> names[i]]],
                           0, None)
           msgs == Append(messages, resp)
           tokens == tokens_used + usage
           parsed == parse(resp.content)
           code == IF validate(parsed) THEN fix_common_issues(parsed.code)
                   ELSE parsed.code
       IN /\ response' = resp
          /\ next_id' = next_id + Len(names)
          /\ generate_calls' = generate_calls + 1
          /\ IF Len(resp.tool_calls) > 0 /\ can_call_tool(calls_this_turn)
             THEN /\ exc = None
                  /\ pc' = "execute_tool"
                  /\ tc_index' = 1
                  /\ messages' = msgs
                  /\ tokens_used' = tokens
                  /\ UNCHANGED <<turn, tool_calls_made, strategy_code, turns,
                                 total_tokens, total_tool_calls, best_profit,
                                 best_strategy, result, closed, raised_exc>>
             ELSE IF resp.content.kind = None \/ (exc = None /\ ~parsed.found)
             THEN /\ exc = None
                  /\ FinishTurn(msgs, tool_calls_made, tokens, NoCode,
                                NoDetails)
                  /\ UNCHANGED <<tc_index, strategy_code, raised_exc>>
             ELSE IF exc = "parser" \/ (exc = "executor" /\ parsed.found)
             THEN /\ messages' = msgs
                  /\ tokens_used' = tokens
                  /\ ReturnError(IF exc = "parser" THEN ParserExcText
                                 ELSE CtorExcText)
                  /\ strategy_code' = IF exc = "parser" THEN NoCode ELSE code
                  /\ UNCHANGED <<turn, tc_index, tool_calls_made, turns,
                                 total_tokens, total_tool_calls, best_profit,
                                 best_strategy>>
             ELSE /\ exc = None
                  /\ next_id + Len(names) + Len(strategies_tried) < MaxWork
                  /\ pc' = "forge_start"
                  /\ strategy_code' = code
                  /\ messages' = msgs
                  /\ tokens_used' = tokens
                  /\ UNCHANGED <<turn, tc_index, tool_calls_made, turns,
                                 total_tokens, total_tool_calls, best_profit,
                                 best_strategy, result, closed, raised_exc>>
    /\ UNCHANGED component_vars
    /\ UNCHANGED tool_defs
    /\ UNCHANGED <<config_vars, tool_results, strategies_tried, policy_vars,
                   exec_vars, tool_invocations, last_tool_result, cancelled>>

\* _run_turn lines 191 and 227: generate raises
LLMRaises ==
    /\ pc = "generate"
    /\ ReturnError(LLMExcText)
    /\ UNCHANGED component_vars
    /\ UNCHANGED tool_defs
    /\ UNCHANGED <<config_vars, turn, messages, ctx_vars, policy_vars,
                   response, tc_index, tool_calls_made, tokens_used,
                   strategy_code, turns, total_tokens, total_tool_calls,
                   exec_vars, next_id, generate_calls, tool_invocations,
                   last_tool_result, cancelled>>

\* _run_turn lines 202-224: one iteration of the for loop over the tool calls
\* of the latest assistant message; after the last one the next generate is
\* awaited (line 227)
ExecuteTool(outcome) ==
    /\ pc = "execute_tool"
    /\ LET tc == response.tool_calls[tc_index]
           r == execute_tool(tc.name, calls_this_turn, outcome)
       IN /\ calls_this_turn' = r.calls
          /\ total_calls' = total_calls + (r.calls - calls_this_turn)
          /\ tool_invocations' = tool_invocations + (IF r.invoked THEN 1 ELSE 0)
          /\ IF r.raised
             THEN /\ ReturnError(ToolExcText)
                  /\ UNCHANGED <<messages, tool_calls_made, tool_results,
                                 tc_index, last_tool_result>>
             ELSE /\ last_tool_result' = r.result
                  /\ tool_calls_made' =
                        Append(tool_calls_made,
                               [tool |-> tc.name, success |-> r.result.success,
                                error |-> r.result.error])
                  /\ messages' = append_tool_reply(messages, tc, r.result)
                  /\ tool_results' =
                        IF r.result.cache_key # ""
                        THEN tool_results \cup {r.result.cache_key}
                        ELSE tool_results
                  /\ IF tc_index < Len(response.tool_calls)
                     THEN /\ tc_index' = tc_index + 1
                          /\ pc' = "execute_tool"
                     ELSE /\ tc_index' = tc_index
                          /\ pc' = "generate"
                  /\ UNCHANGED <<result, closed, raised_exc>>
    /\ UNCHANGED component_vars
    /\ UNCHANGED tool_defs
    /\ UNCHANGED <<config_vars, turn, strategies_tried, best_profit,
                   best_strategy, response, tokens_used, strategy_code, turns,
                   total_tokens, total_tool_calls, exec_vars, next_id,
                   generate_calls, cancelled>>

\* ConcreteExecution.execute lines 86-96 and _run_forge lines 120-181: the
\* temporary directory is created and the child is spawned, unless the test
\* library is missing or the spawn raises (runner binary missing)
ForgeStart(launch) ==
    /\ pc = "forge_start"
    /\ IF launch = "spawned"
       THEN /\ pc' = "forge_wait"
            /\ workspace' = "open"
            /\ child' = "running"
            /\ UNCHANGED <<turn, messages, strategies_tried, best_profit,
                           best_strategy, tool_calls_made, tokens_used, turns,
                           total_tokens, total_tool_calls, result, closed,
                           last_exec>>
       ELSE /\ workspace' = "released"
            /\ child' = "none"
            /\ AfterExecute(
                  IF launch = "lib_missing"
                  THEN ToolResult("forge-std not found", FALSE,
                                  "forge-std not found", "", NoDetails)
                  ELSE ToolResult("Execution failed", FALSE,
                                  "No such file or directory: forge", "",
                                  NoDetails))
    /\ UNCHANGED component_vars
    /\ UNCHANGED tool_defs
    /\ UNCHANGED <<config_vars, tool_results, policy_vars, response, tc_index,
                   strategy_code, next_id, generate_calls, tool_invocations,
                   last_tool_result, raised_exc, cancelled>>

\* _run_forge lines 183-201 and execute lines 96-103: the child exits and its
\* output is parsed, or the timeout fires and the child is killed
ForgeWait(timed_out, out) ==
    /\ pc = "forge_wait"
    /\ workspace' = "released"
    /\ child' = IF timed_out THEN "killed" ELSE "exited"
    /\ AfterExecute(
          IF timed_out
          THEN ToolResult("Execution timed out", FALSE, "Timeout", "",
                          NoDetails)
          ELSE parse_result(out))
    /\ UNCHANGED component_vars
    /\ UNCHANGED tool_defs
    /\ UNCHANGED <<config_vars, tool_results, policy_vars, response, tc_index,
                   strategy_code, next_id, generate_calls, tool_invocations,
                   last_tool_result, raised_exc, cancelled>>

\* asyncio cancellation delivered at a suspension point: CancelledError is a
\* BaseException, so neither `except Exception` of execute_tool (line 101),
\* of ConcreteExecution.execute (line 104) nor of run (line 167) catches it;
\* the `with` block of execute and the finally clause of run (line 179) run
Cancel ==
    /\ \/ pc \in {"generate", "forge_start", "forge_wait"}
       \/ /\ pc = "execute_tool"
          /\ execute_tool(response.tool_calls[tc_index].name, calls_this_turn,
                          "ok").invoked
    /\ IF pc = "execute_tool"
       THEN /\ calls_this_turn' = calls_this_turn + 1
            /\ total_calls' = total_calls + 1
            /\ tool_invocations' = tool_invocations + 1
       ELSE UNCHANGED <<policy_vars, tool_invocations>>
    /\ workspace' = IF workspace = "open" THEN "released" ELSE workspace
    /\ result' = Raised("CancelledError")
    /\ pc' = "raised"
    /\ cancelled' = TRUE
    /\ cleanup
    /\ UNCHANGED component_vars
    /\ UNCHANGED tool_defs
    /\ UNCHANGED <<config_vars, turn, messages, ctx_vars, response, tc_index,
                   tool_calls_made, tokens_used, strategy_code, turns,
                   total_tokens, total_tool_calls, child, last_exec, next_id,
                   generate_calls, last_tool_result, raised_exc>>

Next ==
    \/ RunTurn
    \/ MaxTurnsReached
    \/ \E r \in Responses, exc \in {None, "parser", "executor"} :
            LLMGenerate(r[1], r[2], 1, exc)
    \/ LLMRaises
    \/ \E outcome \in ToolOutcomes : ExecuteTool(outcome)
    \/ \E launch \in {"spawned", "lib_missing", "spawn_error"} :
            ForgeStart(launch)
    \/ \E timed_out \in BOOLEAN, out \in ChildOutputs :
            ForgeWait(timed_out, out)
    \/ Cancel

Spec == Init /\ [][Next]_vars

\* ================================================================ claims

\* ids of the tool calls the assistant messages before position n carry
EmittedBefore(n) ==
    UNION {{messages[k].tool_calls[j].id : j \in 1..Len(messages[k].tool_calls)} :
              k \in {i \in 1..(n - 1) : messages[i].role = "assistant"}}

\* positions of the tool-role messages bound to id x after position n
RepliesAfter(x, n) ==
    {k \in (n + 1)..Len(messages) :
        messages[k].role = "tool" /\ messages[k].tool_call_id = x}

\* the step is one call of execute_tool that returned (not a cancellation)
ExecuteToolStep == pc = "execute_tool" /\ pc' # "raised"

C2_TranscriptPaired ==
    pc \in {"for", "returned"} =>
        /\ \A n \in 1..Len(messages) :
              messages[n].role = "assistant" =>
                  \A j \in 1..Len(messages[n].tool_calls) :
                      Cardinality(RepliesAfter(messages[n].tool_calls[j].id,
                                               n)) = 1
        /\ \A n \in 1..Len(messages) :
              messages[n].role = "tool" =>
                  messages[n].tool_call_id \in EmittedBefore(n)

\* C3: bestProfit starts at 0, never decreases (so it stays >= 0), is
\* overwritten only by the strictly higher profit the turn observed, and
\* bestStrategy changes only in a step in which bestProfit strictly increases.
C3_BestMonotone ==
    /\ best_profit = 0
    /\ [][/\ best_profit' >= best_profit
          /\ best_profit' >= 0
          /\ best_profit' # best_profit =>
                /\ last_exec'.profit > best_profit
                /\ best_profit' = last_exec'.profit
          /\ best_strategy' # best_strategy => best_profit' > best_profit]_vars

\* C3 witness: the best-known pair was overwritten
C3_Witness == best_profit > 0 /\ best_strategy # NoCode

\* C4: a turn whose forked execution reports a successful run with profit
\* above the current bestProfit makes run store that profit and that turn's
\* strategy code as the best-known pair and return success=True with them in
\* that same step (no later turn is started).
C4_SuccessReturnsAtOnce ==
    [][Len(turns') = Len(turns) + 1 =>
        LET tr == turns'[Len(turns')] IN
            (/\ ~tr.execution_result.empty
             /\ tr.execution_result.has_execution
             /\ tr.execution_result.execution_success
             /\ tr.execution_result.profit > best_profit)
            => /\ best_profit' = tr.execution_result.profit
               /\ best_strategy' = tr.strategy_code
               /\ tr.strategy_code = strategy_code
               /\ pc' = "returned"
               /\ result'.outcome = "returned"
               /\ result'.success
               /\ result'.final_profit = tr.execution_result.profit
               /\ result'.final_strategy = tr.strategy_code
               /\ result'.turns = turns'
               /\ turn' = turn]_vars

\* C4 witness: run returned success with a repaired strategy in its second turn
C4_Witness ==
    /\ pc = "returned" /\ result.success
    /\ result.final_strategy.repaired
    /\ result.final_profit > 0
    /\ Len(turns) = 2

\* delta of token t in a balance-change map (0 when t is not in it)
DeltaOf(bc, t) ==
    IF \E p \in bc : p[1] = t THEN (CHOOSE p \in bc : p[1] = t)[2] ELSE 0

\* RevenueNormalizer.execute: base delta plus the value of the surplus minus
\* the cost of the deficit, every quote at TokenRate base units per unit
normalized_profit(bc) ==
    LET base_delta == DeltaOf(bc, BASE)
        d == DeltaOf(bc, TKN)
        surplus_value == IF d > 0 THEN d * TokenRate ELSE 0
        deficit_cost == IF d < 0 THEN (0 - d) * TokenRate ELSE 0
    IN base_delta + surplus_value - deficit_cost

\* C5: run returns success=True only for a strategy whose forked execution
\* left every tracked balance delta non-negative and whose balance deltas,
\* normalized into the base token, have a positive total value.
C5_SuccessMeansProfit ==
    (pc = "returned" /\ result.success) =>
        /\ \A p \in last_exec.balance_changes : p[2] >= 0
        /\ normalized_profit(last_exec.balance_changes) > 0

\* the run ended by an exception or a cancellation
EndedExceptionally == raised_exc # None \/ cancelled

\* C6: for every max_turns given to AgentLoop, run executes turns 0, 1, ...
\* in order and at most max_turns of them; if none ends in success it returns
\* success=False, error "Max turns reached", exactly max_turns turn records
\* and the best-known strategy and profit.
C6_MaxTurns ==
    /\ Len(turns) <= max_turns_arg
    /\ \A i \in 1..Len(turns) : turns[i].turn = i - 1
    /\ (pc = "returned" /\ ~result.success /\ ~EndedExceptionally) =>
          /\ result.error = "Max turns reached"
          /\ Len(result.turns) = max_turns_arg
          /\ result.final_strategy = best_strategy
          /\ result.final_profit = best_profit

\* C7: the number of Reasoner generate calls in one turn is at most
\* max_calls_per_turn + 1, whatever tool calls the Reasoner emits.
C7_GenerateBounded == generate_calls <= max_calls_per_turn + 1

\* C8: a tool whose execute raises inside execute_tool yields a ToolResult
\* with success=false carrying the exception text; no call of execute_tool
\* ends the turn or the run: its tool-role reply is appended and the for loop
\* goes on to the next tool call of the same assistant message.
C8_ToolExceptionContained ==
    [][ExecuteToolStep =>
        LET tc == response.tool_calls[tc_index] IN
            /\ result' = Running
            /\ raised_exc' = None
            /\ Len(messages') = Len(messages) + 1
            /\ messages'[Len(messages')].role = "tool"
            /\ messages'[Len(messages')].tool_call_id = tc.id
            /\ Len(tool_calls_made') = Len(tool_calls_made) + 1
            /\ tool_invocations' = tool_invocations + 1 =>
                  last_tool_result'.error \in {None, ToolExcText}
            /\ last_tool_result'.error = ToolExcText =>
                  /\ ~last_tool_result'.success
                  /\ messages'[Len(messages')].content.kind
                        = "Error: " \o ToolExcText
            /\ IF tc_index < Len(response.tool_calls)
               THEN pc' = "execute_tool" /\ tc_index' = tc_index + 1
               ELSE pc' = "generate"]_vars

\* C8 witness: the first tool call of an assistant message raised and the
\* second one was still processed
C8_Witness ==
    /\ Len(response.tool_calls) = 2
    /\ Len(tool_calls_made) = 2
    /\ tool_calls_made[1].error = ToolExcText
    /\ messages[Len(messages)].role = "tool"
    /\ messages[Len(messages)].tool_call_id = response.tool_calls[2].id

\* C9: an exception raised inside a turn outside tool execution (generate,
\* the parser, the executor's constructor) does not leave run: run returns a
\* LoopResult with success=False, the exception's text as error, the
\* best-known strategy and profit, and the records of the completed turns.
C9_ExceptionBecomesError ==
    raised_exc # None =>
        /\ pc = "returned"
        /\ result.outcome = "returned"
        /\ ~result.success
        /\ result.error = raised_exc
        /\ result.final_strategy = best_strategy
        /\ result.final_profit = best_profit
        /\ result.turns = turns
        /\ Len(result.turns) = turn
        /\ closed

\* C9 witness: the parser raised in the second turn
C9_Witness ==
    /\ raised_exc = ParserExcText
    /\ Len(result.turns) = 1
    /\ pc = "returned"

\* C10: a run cancelled at a suspension point releases its temporary
\* workspace, closes its transport clients and returns a LoopResult with
\* success=False and error "cancelled".
C10_CancelReturns ==
    cancelled =>
        /\ workspace # "open"
        /\ closed
        /\ result.outcome = "returned"
        /\ ~result.success
        /\ result.error = "cancelled"

\* every tool-role message is the reply to a tool call of the nearest
\* assistant message before it, at the distance the call has in its list
RepliesInOrder(msgs) ==
    \A p \in 1..Len(msgs) :
        msgs[p].role = "tool"
          => \E n \in 1..(p - 1) :
                /\ msgs[n].role = "assistant"
                /\ p - n <= Len(msgs[n].tool_calls)
                /\ msgs[n].tool_calls[p - n].id = msgs[p].tool_call_id
                /\ \A q \in (n + 1)..p : msgs[q].role = "tool"

\* C20: the tool calls of an assistant message are executed in the order
\* listed and their tool-role replies are appended in that order at
\* consecutive positions directly after that message; the transcript only
\* grows by appending, the earlier transcript being a prefix of the later.
C20_OrderedAppendOnly ==
    [][/\ RepliesInOrder(messages')
       /\ Len(messages') >= Len(messages)
       /\ SubSeq(messages', 1, Len(messages)) = messages
       /\ ExecuteToolStep
            => /\ Len(messages') = Len(messages) + 1
               /\ messages'[Len(messages')].tool_call_id =
                    response.tool_calls[tc_index].id
               /\ pc' = "execute_tool" => tc_index' = tc_index + 1]_vars

\* an assistant message with two tool calls, answered in order right after it
C20_Witness ==
    \E n \in 1..Len(messages) :
        /\ messages[n].role = "assistant"
        /\ Len(messages[n].tool_calls) = 2
        /\ Len(messages) >= n + 2
        /\ messages[n + 1].role = "tool"
        /\ messages[n + 1].tool_call_id = messages[n].tool_calls[1].id
        /\ messages[n + 2].role = "tool"
        /\ messages[n + 2].tool_call_id = messages[n].tool_calls[2].id

\* C27: in every turn the number of tool executions, the calls made through
\* the policy and the controller's own forked execution of the parsed
\* strategy counted together, is at most max_calls_per_turn.
C27_TurnExecutionsBounded ==
    tool_invocations + (IF pc = "forge_wait" THEN 1 ELSE 0)
        <= max_calls_per_turn

\* C29: every generate call is made on a transcript whose last message is a
\* user-role or a tool-role message, also after a turn whose final assistant
\* message held no parsable strategy.
C29_GenerateAfterUserOrTool ==
    pc = "generate"
      => /\ messages # <<>>
         /\ messages[Len(messages)].role \in {"user", "tool"}

\* ================================================================= Cache
\* Every operation opens its own connection to cache.db (sqlite3.connect),
\* so callers in different threads or processes interleave at the level of
\* the SQL statements.  get is two statements: the SELECT of line 45 and,
\* for an expired row, the DELETE of line 57; every other operation is one.

OtherThanCache == OthersUnchanged("cache")

\* Cache.get lines 44-55 and 61: the SELECT, the miss, the expiry test and
\* the hit
GetSelect(c, k) ==
    /\ callers[c].pc = "idle"
    /\ LET row == store[k]
       IN IF ~row.present
          THEN /\ cache_op' = CacheOp("get", c, k, None)
               /\ UNCHANGED callers
          ELSE IF get_expired(row, now)
          THEN /\ callers' = [callers EXCEPT ![c] =
                                 [pc |-> "get_delete", key |-> k]]
               /\ cache_op' = CacheOp("get_select", c, k, None)
          ELSE /\ cache_op' = CacheOp("get", c, k, json_loads(row.value))
               /\ UNCHANGED callers
    /\ UNCHANGED <<store, now, last_set>>
    /\ OtherThanCache

\* Cache.get lines 57-59: the DELETE by key, the commit, return None
GetDelete(c) ==
    /\ callers[c].pc = "get_delete"
    /\ store' = [store EXCEPT ![callers[c].key] = Absent]
    /\ callers' = [callers EXCEPT ![c] = CallerIdle]
    /\ cache_op' = CacheOp("get", c, callers[c].key, None)
    /\ UNCHANGED <<now, last_set>>
    /\ OtherThanCache

\* Cache.set: INSERT OR REPLACE of the row for the key
Set(c, k, v, ttl_arg) ==
    /\ callers[c].pc = "idle"
    /\ LET ttl == IF ttl_arg # 0 THEN ttl_arg ELSE settings_cache_ttl
       IN store' = [store EXCEPT ![k] =
                       [present |-> TRUE, value |-> json_dumps(v),
                        created_at |-> int_time(now), ttl |-> ttl]]
    /\ last_set' = [last_set EXCEPT ![k] = v]
    /\ cache_op' = CacheOp("set", c, k, None)
    /\ UNCHANGED <<now, callers>>
    /\ OtherThanCache

\* Cache.delete
Delete(c, k) ==
    /\ callers[c].pc = "idle"
    /\ store' = [store EXCEPT ![k] = Absent]
    /\ cache_op' = CacheOp("delete", c, k, None)
    /\ UNCHANGED <<now, callers, last_set>>
    /\ OtherThanCache

\* Cache.clear
Clear(c) ==
    /\ callers[c].pc = "idle"
    /\ store' = [k \in CacheKeys |-> Absent]
    /\ cache_op' = CacheOp("clear", c, None, None)
    /\ UNCHANGED <<now, callers, last_set>>
    /\ OtherThanCache

\* Cache.cleanup_expired: returns the number of rows deleted
CleanupExpired(c) ==
    /\ callers[c].pc = "idle"
    /\ LET gone == {k \in CacheKeys :
                       store[k].present /\ cleanup_matches(store[k], now)}
       IN /\ store' = [k \in CacheKeys |->
                          IF k \in gone THEN Absent ELSE store[k]]
          /\ cache_op' = CacheOp("cleanup_expired", c, None,
                                 Cardinality(gone))
    /\ UNCHANGED <<now, callers, last_set>>
    /\ OtherThanCache

\* time passes
Tick ==
    /\ now < MaxTime
    /\ now' = now + 1
    /\ cache_op' = CacheOp("tick", 0, None, None)
    /\ UNCHANGED <<store, callers, last_set>>
    /\ OtherThanCache

CacheInit == OthersIdle("cache") /\ CacheIdle

CacheNext ==
    \/ \E c \in CacheCallers, k \in CacheKeys : GetSelect(c, k)
    \/ \E c \in CacheCallers : GetDelete(c)
    \/ \E c \in CacheCallers, k \in CacheKeys, v \in CacheValues,
          ttl_arg \in 0..MaxTtl : Set(c, k, v, ttl_arg)
    \/ \E c \in CacheCallers, k \in CacheKeys : Delete(c, k)
    \/ \E c \in CacheCallers : Clear(c)
    \/ \E c \in CacheCallers : CleanupExpired(c)
    \/ Tick

CacheSpec == CacheInit /\ [][CacheNext]_vars

\* ---------------------------------------------------------- Cache claims
\* created_at + ttl of a row, in ticks
ExpiryOf(row) == (row.created_at + row.ttl) * TicksPerSecond

\* the step is caller c's SELECT of Cache.get for key k
GetSelectStep(c, k) ==
    /\ callers[c].pc = "idle"
    /\ cache_op'.op \in {"get", "get_select"}
    /\ cache_op'.caller = c
    /\ cache_op'.key = k

\* the step is caller c's DELETE of Cache.get
GetDeleteStep(c) == callers[c].pc = "get_delete" /\ callers'[c].pc = "idle"

\* the step completes an operation of the given names
CacheOpStep(names) == cache_op'.op \in names

\* C11 (as stated): a get(k) made after set(k, v, ttl) and strictly before
\* createdAt + ttl returns v; a get(k) made at or after createdAt + ttl
\* returns absent and goes on to delete the entry for k.
C11_AsStated ==
    [][\A c \in CacheCallers, k \in CacheKeys :
          (GetSelectStep(c, k) /\ store[k].present)
            => IF now < ExpiryOf(store[k])
               THEN cache_op' = CacheOp("get", c, k, last_set[k])
               ELSE /\ cache_op' = CacheOp("get_select", c, k, None)
                    /\ callers'[c] = [pc |-> "get_delete", key |-> k]]_vars

\* C11 (amended): a get(k) made after set(k, v, ttl) and not later than
\* createdAt + ttl returns v as json.loads reads back what json.dumps wrote;
\* a get(k) made strictly after createdAt + ttl returns absent, and its
\* DELETE leaves no entry for k in the store.
C11_GetWithinTtl ==
    [][/\ \A c \in CacheCallers, k \in CacheKeys :
            (GetSelectStep(c, k) /\ store[k].present)
              => IF now <= ExpiryOf(store[k])
                 THEN cache_op' = CacheOp("get", c, k,
                                     json_loads(json_dumps(last_set[k])))
                 ELSE /\ cache_op' = CacheOp("get_select", c, k, None)
                      /\ callers'[c] = [pc |-> "get_delete", key |-> k]
       /\ \A c \in CacheCallers :
            GetDeleteStep(c)
              => /\ ~store'[callers[c].key].present
                 /\ cache_op' = CacheOp("get", c, callers[c].key, None)]_vars

\* a get returned the stored value at the very instant createdAt + ttl
C11_Witness ==
    /\ cache_op.op = "get"
    /\ cache_op.ret # None
    /\ store[cache_op.key].present
    /\ now = ExpiryOf(store[cache_op.key])

C13_GetDeletesOnlyExpired ==
    [][\A c \in CacheCallers :
          (GetDeleteStep(c) /\ store[callers[c].key].present)
            => get_expired(store[callers[c].key], now)]_vars

\* ========================================================== ProfitOracle
OtherThanOracle == OthersUnchanged("oracle")

\* analyze lines 160-216: one iteration of the loop over the items; quote is
\* what the awaited DEX quote does, where one is asked for
AnalyzeItem(quote) ==
    /\ ~report.returned
    /\ oracle_i \in 1..Len(oracle_changes)
    /\ LET token == oracle_changes[oracle_i][1]
           delta == delta_of(oracle_changes[oracle_i][2])
           asked == delta # 0 /\ lower(token) # lower(base_token)
       IN /\ asked \/ quote = [raised |-> FALSE, amount |-> 0]
          /\ report' = classify(report, token, delta,
                                value_in_base(token, delta, quote),
                                asked /\ quote.raised)
    /\ oracle_i' = oracle_i + 1
    /\ UNCHANGED oracle_changes
    /\ OtherThanOracle

\* analyze lines 218-234: the loop is over, the report is returned
AnalyzeReturn ==
    /\ ~report.returned
    /\ oracle_i = Len(oracle_changes) + 1
    /\ report' = finish_report(report, Len(oracle_changes))
    /\ UNCHANGED <<oracle_changes, oracle_i>>
    /\ OtherThanOracle

OracleInit ==
    /\ OthersIdle("oracle")
    /\ oracle_changes \in BalanceChanges
    /\ oracle_i = 1
    /\ report = NewReport

OracleNext ==
    \/ \E quote \in QuoteOutcomes : AnalyzeItem(quote)
    \/ AnalyzeReturn

OracleSpec == OracleInit /\ [][OracleNext]_vars

\* --------------------------------------------------- ProfitOracle claims
\* the deltas of the items of the map
DeltasOfMap == {delta_of(oracle_changes[i][2]) : i \in 1..Len(oracle_changes)}

\* C14: the report of analyze satisfies gross = baseDelta + surplusValue,
\* net = baseDelta + surplusValue - deficitCost, and isProfitable is true
\* exactly when net > 0.
C14_ProfitIdentities ==
    report.returned
      => /\ report.gross_profit = report.base_token_delta + report.surplus_value
         /\ report.net_profit = report.base_token_delta + report.surplus_value
                                  - report.deficit_cost
         /\ report.is_profitable <=> report.net_profit > 0

\* a report with a gain in the base token, a priced surplus and a deficit
\* whose cost eats the profit
C14_Witness ==
    /\ report.returned
    /\ report.deficit_cost > 0
    /\ report.gross_profit > 0
    /\ ~report.is_profitable

\* C15: allBalancesPreserved is true exactly when every token in the map,
\* the base token included, has delta >= 0.
C15_BalancesPreserved ==
    report.returned
      => (report.all_balances_preserved <=> \A d \in DeltasOfMap : d >= 0)

\* ========================================================= ProxyResolver
OtherThanProxy == OthersUnchanged("proxy")

\* the chain states resolve is run against: the requested address 0xaa with
\* any few patterns pointing at 0xbb; 0xbb a plain contract or a proxy to
\* 0xaa (a cycle) or to 0xcc; 0xcc a plain contract or a proxy to itself
ChainStates ==
    {[a \in Addrs |->
         CASE a = "0xaa" -> [shapes |-> sa,
                             target |-> IF sa = {} THEN ZERO ELSE "0xbb"]
           [] a = "0xbb" -> [shapes |-> sb[1],
                             target |-> IF sb[1] = {} THEN ZERO ELSE sb[2]]
           [] OTHER -> [shapes |-> sc,
                        target |-> IF sc = {} THEN ZERO ELSE "0xcc"]] :
        sa \in {x \in SUBSET ProxyShapes : Cardinality(x) <= MaxShapes},
        sb \in {{}, {"impl_slot"}, {"minimal_code"}} \X {"0xaa", "0xcc"},
        sc \in {{}, {"impl_slot"}}}

\* the running call of resolve
Top == frames[Len(frames)]

\* the running call goes on with its info and position replaced
Continue(info, next_pc) ==
    frames' = [frames EXCEPT ![Len(frames)] =
                  [@ EXCEPT !.info = info,
                            !.address = info.address,
                            !.pc = IF info.proxy_type = "none" THEN next_pc
                                   ELSE "nested"]]

\* resolve lines 133-136: the address is normalised, which raises for a
\* string that is no address, and the EIP-1967 slots are read
TryEip1967 ==
    /\ frames # <<>>
    /\ Top.pc = "eip1967"
    /\ IF Top.address \notin Addrs \cup {to_checksum_address(a) : a \in Addrs}
       THEN /\ frames' = <<>>
            /\ proxy_result' = [outcome |-> "raised",
                                info |-> ProxyInfo(None)]
       ELSE /\ Continue(try_eip1967(to_checksum_address(Top.address)),
                        "eip1167")
            /\ UNCHANGED proxy_result
    /\ UNCHANGED <<chain, rpc_down, proxy_req>>
    /\ OtherThanProxy

\* resolve lines 137-138
TryEip1167 ==
    /\ frames # <<>>
    /\ Top.pc = "eip1167"
    /\ Continue(try_eip1167(Top.address), "custom")
    /\ UNCHANGED <<chain, rpc_down, proxy_req, proxy_result>>
    /\ OtherThanProxy

\* resolve lines 139-140
TryCustomSlots ==
    /\ frames # <<>>
    /\ Top.pc = "custom"
    /\ Continue(try_custom_slots(Top.address), "getter")
    /\ UNCHANGED <<chain, rpc_down, proxy_req, proxy_result>>
    /\ OtherThanProxy

\* resolve lines 141-142
TryImplementationFunction ==
    /\ frames # <<>>
    /\ Top.pc = "getter"
    /\ Continue(try_implementation_function(Top.address), "nested")
    /\ UNCHANGED <<chain, rpc_down, proxy_req, proxy_result>>
    /\ OtherThanProxy

\* resolve lines 144-157: the nested call is made, or the call returns, to
\* its caller (which then returns what line 151-155 made of it) or to the
\* outside
FinishResolve ==
    /\ frames # <<>>
    /\ Top.pc \in {"nested", "return"}
    /\ IF /\ Top.pc = "nested"
          /\ Top.resolve_nested
          /\ Top.info.implementation_address # None
          /\ Top.max_depth > 0
       THEN /\ frames' = Append([frames EXCEPT ![Len(frames)].pc = "await"],
                                Frame(Top.info.implementation_address, TRUE,
                                      Top.max_depth - 1))
            /\ UNCHANGED proxy_result
       ELSE IF Len(frames) = 1
       THEN /\ frames' = <<>>
            /\ proxy_result' = [outcome |-> "returned", info |-> Top.info]
       ELSE /\ frames' =
                  [SubSeq(frames, 1, Len(frames) - 1)
                     EXCEPT ![Len(frames) - 1] =
                        [@ EXCEPT !.info = merge_nested(@, Top.info),
                                  !.pc = "return"]]
            /\ UNCHANGED proxy_result
    /\ UNCHANGED <<chain, rpc_down, proxy_req>>
    /\ OtherThanProxy

ProxyInit ==
    /\ OthersIdle("proxy")
    /\ chain \in ChainStates
    /\ rpc_down \in BOOLEAN
    /\ proxy_req \in [address : RequestAddresses, resolve_nested : BOOLEAN]
    /\ frames = <<Frame(proxy_req.address, proxy_req.resolve_nested,
                        max_depth_default)>>
    /\ proxy_result = NoProxyResult

ProxyNext ==
    \/ TryEip1967
    \/ TryEip1167
    \/ TryCustomSlots
    \/ TryImplementationFunction
    \/ FinishResolve

ProxySpec == ProxyInit /\ [][ProxyNext]_vars

\* -------------------------------------------------- ProxyResolver claims
\* the patterns found at the requested address, 0xaa
RequestedShapes == chain["0xaa"].shapes

\* the address shows a proxy pattern of the ordered list
IsProxy(a) == chain[a].shapes \ {"prefix_code"} # {}

\* the kind of the first step of the ordered list that matches
FirstMatchingKind ==
    IF rpc_down THEN "none"
    ELSE IF "impl_slot" \in RequestedShapes THEN "eip1967_transparent"
    ELSE IF "beacon_slot" \in RequestedShapes THEN "eip1967_beacon"
    ELSE IF "minimal_code" \in RequestedShapes THEN "eip1167_minimal"
    ELSE IF "custom_slot" \in RequestedShapes THEN "custom_slot"
    ELSE IF "getter" \in RequestedShapes THEN "uups"
    ELSE "none"

\* the implementations met from address a on, following at most d levels
RECURSIVE ImplChain(_, _)
ImplChain(a, d) ==
    IF d = 0 \/ ~IsProxy(a) THEN <<>>
    ELSE <<chain[a].target>> \o ImplChain(chain[a].target, d - 1)

\* C16: the kind resolve returns is the one of the first matching step in
\* the order implementation slot, beacon slot, minimal-proxy bytecode,
\* custom slots, getter functions; none only when no step matches, a step
\* whose RPC read fails counting as not matching.
C16_FirstMatchingStep ==
    proxy_result.outcome = "returned"
      => proxy_result.info.proxy_type = FirstMatchingKind

\* C17: with nesting requested resolve goes at most 5 further levels deep,
\* nested_implementations lists the intermediate proxies in chain order and
\* implementation_address is the end of the chain.
C17_NestedChain ==
    /\ Len(frames) <= max_depth_default + 1
    /\ (/\ proxy_result.outcome = "returned"
        /\ proxy_req.resolve_nested
        /\ ~rpc_down)
         => LET ch == ImplChain("0xaa", max_depth_default + 1)
            IN ch # <<>>
                 => /\ proxy_result.info.nested_implementations =
                         [i \in 1..(Len(ch) - 1) |-> to_checksum_address(ch[i])]
                    /\ proxy_result.info.implementation_address =
                         to_checksum_address(ch[Len(ch)])

\* C18: code that is the EIP-1167 prefix, 20 address bytes and the suffix
\* (no earlier step matching) is reported as eip1167-minimal with those 20
\* bytes, checksum-formatted, as implementation; code that starts with the
\* prefix but does not go on with 20 bytes and the suffix is not.
C18_MinimalProxyExact ==
    (/\ proxy_result.outcome = "returned"
     /\ ~rpc_down
     /\ RequestedShapes \cap {"impl_slot", "beacon_slot"} = {})
      => /\ "minimal_code" \in RequestedShapes
              => /\ proxy_result.info.proxy_type = "eip1167_minimal"
                 /\ proxy_result.info.implementation_address =
                      to_checksum_address(chain["0xaa"].target)
         /\ ("prefix_code" \in RequestedShapes
               /\ "minimal_code" \notin RequestedShapes)
              => proxy_result.info.proxy_type # "eip1167_minimal"

\* =================================================== fixed-sequence mode
\* a queue of n (name, args) pairs; args stands for the dict {x: args}
FixedQueue(n) ==
    [i \in 1..n |-> [name |-> "source_code_fetcher", args |-> i - 1]]

\* ToolPolicy.set_fixed_sequence called on loop.policy before run
set_fixed_sequence(sequence) ==
    /\ fixed_sequence = sequence
    /\ sequence_index = 0
    /\ mode = "fixed_sequence"

FixedInit ==
    /\ LoopConstructed
    /\ \E n \in 1..MaxQueue : set_fixed_sequence(FixedQueue(n))
    /\ tool_defs = None
    /\ ComponentsIdle

FixedSpec == FixedInit /\ [][Next]_vars

\* the entry of tool_calls_made stands for a tool that was run
WasRun(c) ==
    /\ c.tool # "concrete_execution"
    /\ c.error \notin {"Call limit reached", "Tool not found"}

\* the names of the tools run in a finished turn, in order
RunIn(tr) ==
    LET ran == SelectSeq(tr.tool_calls, WasRun)
    IN [j \in 1..Len(ran) |-> ran[j].tool]

\* the smaller of two numbers
Min(a, b) == IF a < b THEN a ELSE b

\* C19: in fixed-sequence mode the queued pairs are the tool calls that get
\* executed, in queue order and each once, max_calls_per_turn of them in a
\* turn; once the queue is drained no tools are offered to the Reasoner.
C19_FixedSequence ==
    mode = "fixed_sequence"
      => /\ \A i \in 1..Len(turns) :
               LET done == Min((i - 1) * max_calls_per_turn,
                               Len(fixed_sequence))
                   due == Min(max_calls_per_turn, Len(fixed_sequence) - done)
               IN RunIn(turns[i]) =
                      [j \in 1..due |-> fixed_sequence[done + j].name]
         /\ (pc = "generate"
               /\ turn * max_calls_per_turn >= Len(fixed_sequence))
              => tool_defs = None

\* ======================================================= StrategyParser
\* parse is called on the response
Parse ==
    /\ ~parsed_strategy.returned
    /\ parsed_strategy' = parse_response(matches)
    /\ UNCHANGED matches
    /\ OthersUnchanged("parser")

ParserInit ==
    /\ OthersIdle("parser")
    /\ matches \in SeqsUpTo(CodeBlocks, 0, MaxBlocks)
    /\ parsed_strategy = NotParsed

ParserNext == Parse

ParserSpec == ParserInit /\ [][ParserNext]_vars

\* C21: parse selects a block of maximum length, and among several blocks of
\* the maximum length the one that occurs last in the response.
C21_LongestLastWins ==
    (parsed_strategy.returned /\ parsed_strategy.found)
      => /\ \A j \in 1..Len(matches) :
               matches[j].len <= matches[parsed_strategy.block].len
         /\ \A j \in (parsed_strategy.block + 1)..Len(matches) :
               matches[j].len < matches[parsed_strategy.block].len

\* C28: parse reports contract_name "Strategy" whenever the selected block
\* declares a contract named Strategy; only when it declares none does it
\* report the last declared contract.
C28_StrategyPreferred ==
    (parsed_strategy.returned /\ parsed_strategy.found)
      => LET contracts == matches[parsed_strategy.block].contracts
         IN IF \E i \in 1..Len(contracts) : contracts[i] = "Strategy"
            THEN parsed_strategy.contract_name = "Strategy"
            ELSE contracts # <<>>
                   => parsed_strategy.contract_name = contracts[Len(contracts)]

\* ==================================================== ConcreteExecution
\* execute lines 86-96 and _run_forge lines 120-181
Launch(launch) ==
    /\ forge_pc = "idle"
    /\ forge_launch' = launch
    /\ IF launch = "spawned"
       THEN /\ forge_pc' = "waiting"
            /\ forge_child' = "running"
            /\ UNCHANGED forge_result
       ELSE /\ forge_pc' = "returned"
            /\ forge_child' = "none"
            /\ forge_result' =
                  IF launch = "lib_missing"
                  THEN ToolResult("forge-std not found", FALSE,
                                  "forge-std not found", "", NoDetails)
                  ELSE ToolResult("Execution failed", FALSE,
                                  "No such file or directory: forge", "",
                                  NoDetails)
    /\ UNCHANGED forge_output
    /\ OthersUnchanged("forge")

\* _run_forge lines 183-201 and execute lines 96-103
Communicate(timed_out, out) ==
    /\ forge_pc = "waiting"
    /\ forge_pc' = "returned"
    /\ IF timed_out
       THEN /\ forge_child' = "killed"
            /\ forge_result' = ToolResult("Execution timed out", FALSE,
                                          "Timeout", "", NoDetails)
            /\ UNCHANGED forge_output
       ELSE /\ forge_child' = "exited"
            /\ forge_output' = out
            /\ forge_result' = parse_result(out)
    /\ UNCHANGED forge_launch
    /\ OthersUnchanged("forge")

\* the task awaiting communicate() is cancelled: CancelledError is no
\* Exception and no TimeoutError, so lines 97-108 and 189-191 let it through
CancelExecute ==
    /\ forge_pc = "waiting"
    /\ forge_pc' = "raised"
    /\ UNCHANGED <<forge_launch, forge_child, forge_output, forge_result>>
    /\ OthersUnchanged("forge")

ForgeInit == OthersIdle("forge") /\ ForgeIdle

ForgeNext ==
    \/ \E launch \in Launches : Launch(launch)
    \/ \E out \in ForgeOutputs : Communicate(FALSE, out)
    \/ Communicate(TRUE, NoOutput)
    \/ CancelExecute

ForgeSpec == ForgeInit /\ [][ForgeNext]_vars

\* the result reports a successful run
ReportsRun(r) ==
    r.success \/ (r.details.has_execution /\ r.details.execution_success)

\* C22: a result with execution_success = true has compile_success = true,
\* and a result with compile_success = false never reports a successful run,
\* whatever the child printed and returned.
C22_RanImpliesCompiled ==
    forge_pc = "returned"
      => /\ (forge_result.details.has_execution
               /\ forge_result.details.execution_success)
              => forge_result.details.compile_success
         /\ (~forge_result.details.empty
               /\ ~forge_result.details.compile_success)
              => ~ReportsRun(forge_result)

\* the compiler complained and yet the test printed its SUCCESS marker and
\* returned 0
C22_Witness ==
    /\ forge_pc = "returned"
    /\ forge_child = "exited"
    /\ forge_output.stderr_error
    /\ forge_output.marker = "SUCCESS"
    /\ forge_output.returncode = 0
    /\ ~forge_result.details.compile_success

\* C23: execute never raises, and a missing runner binary gives the error
\* "toolchain_missing", a missing test library "lib_missing", a timeout kills
\* the child and gives "timeout", a compile failure gives compile_success =
\* false with the error "compile", and a revert gives execution_success =
\* false with a revert reason.
C23_FailuresMapped ==
    /\ forge_pc # "raised"
    /\ forge_pc = "returned"
         => /\ forge_launch = "binary_missing"
                 => forge_result.error = "toolchain_missing"
            /\ forge_launch = "lib_missing"
                 => forge_result.error = "lib_missing"
            /\ forge_child = "killed" => forge_result.error = "timeout"
            /\ (forge_child = "exited" /\ forge_output.stderr_error)
                 => /\ ~forge_result.details.compile_success
                    /\ forge_result.error = "compile"
            /\ (forge_child = "exited" /\ ~forge_output.stderr_error
                  /\ forge_output.marker = "FAILED")
                 => /\ ~forge_result.details.execution_success
                    /\ forge_result.error \notin {None, ""}

\* ========================================================= ASTAnalyzer
sort_vars == <<unsorted, visit_stack, visited, temp_mark, ordered>>

\* get_required_contracts lines 236-248: one pass of `while to_process`
RequiredStep(current) ==
    /\ san_pc = "closure"
    /\ to_process # <<>>
    /\ current \in to_process[Len(to_process)]
    /\ IF current \in required
       THEN /\ to_process' = pop(to_process, current)
            /\ UNCHANGED required
       ELSE /\ required' = required \cup {current}
            /\ to_process' = extend(pop(to_process, current),
                                    inheritance_of(current),
                                    usages_of(current))
    /\ UNCHANGED <<graph, target_contract, san_pc, sort_vars, parts>>
    /\ OthersUnchanged("sanitizer")

\* get_required_contracts line 250 and _topological_sort lines 292-294
RequiredReturn ==
    /\ san_pc = "closure"
    /\ to_process = <<>>
    /\ san_pc' = "sort"
    /\ unsorted' = required
    /\ UNCHANGED <<graph, target_contract, required, to_process, visit_stack,
                   visited, temp_mark, ordered, parts>>
    /\ OthersUnchanged("sanitizer")

\* _topological_sort lines 318-319: `for name in contracts` calls visit
SortVisit(name) ==
    /\ san_pc = "sort"
    /\ visit_stack = <<>>
    /\ name \in unsorted
    /\ unsorted' = unsorted \ {name}
    /\ temp_mark' = visit_enter(name, temp_mark, visit_stack).temp_mark
    /\ visit_stack' = visit_enter(name, temp_mark, visit_stack).visit_stack
    /\ UNCHANGED <<graph, target_contract, san_pc, required, to_process,
                   visited, ordered, parts>>
    /\ OthersUnchanged("sanitizer")

\* visit lines 306-314: the next dependency of the innermost call, a parent
\* first and a used contract after the parents
VisitDep(dep) ==
    /\ san_pc = "sort"
    /\ visit_stack # <<>>
    /\ LET n == Len(visit_stack)
           top == visit_stack[n]
           rest == IF top.inherits # <<>>
                   THEN [top EXCEPT !.inherits = Tail(top.inherits)]
                   ELSE [top EXCEPT !.usages = top.usages \ {dep}]
           stack == [visit_stack EXCEPT ![n] = rest]
       IN /\ IF top.inherits # <<>> THEN dep = Head(top.inherits)
                                    ELSE dep \in top.usages
          /\ IF dep \in required
             THEN /\ temp_mark' = visit_enter(dep, temp_mark, stack).temp_mark
                  /\ visit_stack' =
                         visit_enter(dep, temp_mark, stack).visit_stack
             ELSE /\ visit_stack' = stack
                  /\ UNCHANGED temp_mark
    /\ UNCHANGED <<graph, target_contract, san_pc, required, to_process,
                   unsorted, visited, ordered, parts>>
    /\ OthersUnchanged("sanitizer")

\* visit lines 315-317: the innermost call has no dependency left
VisitReturn ==
    /\ san_pc = "sort"
    /\ visit_stack # <<>>
    /\ LET n == Len(visit_stack)
           top == visit_stack[n]
       IN /\ top.inherits = <<>> /\ top.usages = {}
          /\ temp_mark' = temp_mark \ {top.name}
          /\ visited' = visited \cup {top.name}
          /\ ordered' = Append(ordered, top.name)
          /\ visit_stack' = SubSeq(visit_stack, 1, n - 1)
    /\ UNCHANGED <<graph, target_contract, san_pc, required, to_process,
                   unsorted, parts>>
    /\ OthersUnchanged("sanitizer")

\* extract_minimal_source lines 276-284: the contracts of ordered that the
\* code defines are emitted in that order
Emit ==
    /\ san_pc = "sort"
    /\ visit_stack = <<>>
    /\ unsorted = {}
    /\ san_pc' = "done"
    /\ parts' = SelectSeq(ordered, LAMBDA name : name \in Entities)
    /\ UNCHANGED <<graph, target_contract, required, to_process, sort_vars>>
    /\ OthersUnchanged("sanitizer")

\* extract_minimal_source lines 258-263 for a target the code defines
SanitizerInit ==
    /\ OthersIdle("sanitizer")
    /\ \E a \in ContractDeps("A"), b \in ContractDeps("B"),
          c \in ContractDeps("C") :
          graph = ("A" :> a) @@ ("B" :> b) @@ ("C" :> c)
    /\ target_contract \in Entities
    /\ san_pc = "closure"
    /\ required = {}
    /\ to_process = <<{target_contract}>>
    /\ unsorted = {}
    /\ visit_stack = <<>>
    /\ visited = {}
    /\ temp_mark = {}
    /\ ordered = <<>>
    /\ parts = <<>>

SanitizerNext ==
    \/ \E current \in Entities \cup {Imported} : RequiredStep(current)
    \/ RequiredReturn
    \/ \E name \in Entities \cup {Imported} : SortVisit(name)
    \/ \E dep \in Entities \cup {Imported} : VisitDep(dep)
    \/ VisitReturn
    \/ Emit

\* the call runs on one thread from its first line to its return
SanitizerSpec ==
    SanitizerInit /\ [][SanitizerNext]_vars /\ WF_vars(SanitizerNext)

\* what contract n inherits from or uses, among the contracts of the code
DependsOn(n) == (Range(graph[n].inherits) \cup graph[n].usages) \cap Entities

RECURSIVE ReachableFrom(_, _)
ReachableFrom(S, fuel) ==
    IF fuel = 0 THEN S
    ELSE ReachableFrom(S \cup UNION {DependsOn(n) : n \in S}, fuel - 1)

\* the transitive closure reachable from the target
Closure == ReachableFrom({target_contract}, Cardinality(Entities))

\* no contract of the closure depends on itself, directly or not
Acyclic ==
    \A n \in Closure :
        n \notin ReachableFrom(DependsOn(n), Cardinality(Entities))

PositionIn(q, name) == CHOOSE i \in 1..Len(q) : q[i] = name

SanitizerDone ==
    san_pc = "done"
      => /\ Range(parts) = Closure
         /\ \A i, j \in 1..Len(parts) : parts[i] = parts[j] => i = j
         /\ Acyclic
              => \A n \in Closure : \A d \in DependsOn(n) :
                     PositionIn(parts, d) < PositionIn(parts, n)

\* C24: extract_minimal emits exactly the contracts of the transitive
\* closure reachable from the target, each exactly once; when the closure is
\* acyclic every contract comes after all the contracts it inherits from or
\* uses; and on every graph, cyclic ones included, the call terminates.
C24_ClosureInDependencyOrder == []SanitizerDone /\ <>(san_pc = "done")

\* a finished call on an acyclic closure of three contracts
C24_Witness ==
    /\ san_pc = "done"
    /\ Acyclic
    /\ Len(parts) = 3
    /\ graph[target_contract].inherits # <<>>

\* ======================================================== DexAggregator
\* get_quote lines 178-211 and get_quote_exact_out lines 227-260: the next
\* router call of the two loops, inside its try
TryPath(answer) ==
    /\ dex_result = "pending"
    /\ Len(dex_answers) < Len(candidates(dex_request))
    /\ LET candidate == candidates(dex_request)[Len(dex_answers) + 1]
       IN best_quote' =
              IF answer.kind # "raises"
                 /\ replaces(dex_request.exact_out,
                             quote_from_dex(candidate, answer), best_quote)
              THEN quote_from_dex(candidate, answer)
              ELSE best_quote
    /\ dex_answers' = Append(dex_answers, answer)
    /\ UNCHANGED <<dex_request, dex_result>>
    /\ OthersUnchanged("dex")

\* lines 213-216 and 262-265
QuoteReturn ==
    /\ dex_result = "pending"
    /\ Len(dex_answers) = Len(candidates(dex_request))
    /\ dex_result' = IF best_quote.present THEN "quote"
                     ELSE "ValueError: No quote available"
    /\ UNCHANGED <<dex_request, dex_answers, best_quote>>
    /\ OthersUnchanged("dex")

DexInit ==
    /\ OthersIdle("dex")
    /\ dex_request \in [exact_out : BOOLEAN, token_in : QuoteTokens,
                        token_out : QuoteTokens]
    /\ dex_answers = <<>>
    /\ best_quote = NoQuote
    /\ dex_result = "pending"

DexNext ==
    \/ \E answer \in RouterAnswers : TryPath(answer)
    \/ QuoteReturn

DexSpec == DexInit /\ [][DexNext]_vars

\* the amounts of the paths that returned a usable quote
UsableAmounts ==
    {dex_answers[i].amount :
        i \in {j \in 1..Len(dex_answers) : dex_answers[j].kind = "amounts"}}

\* C25: over all candidate paths of all DEXes, get_quote returns a quote
\* with the largest amount_out among the usable quotes and
\* get_quote_exact_out one with the smallest amount_in; a failing router
\* call is skipped, the search goes on; the call raises the no-quote error
\* exactly when no path gave a usable quote.
C25_BestOverAllPaths ==
    dex_result # "pending"
      => /\ Len(dex_answers) = Len(candidates(dex_request))
         /\ (dex_result = "ValueError: No quote available")
              <=> (UsableAmounts = {})
         /\ dex_result = "quote"
              => /\ best_quote.amount \in UsableAmounts
                 /\ \A a \in UsableAmounts :
                        IF dex_request.exact_out THEN best_quote.amount <= a
                                                 ELSE best_quote.amount >= a
                 /\ \E i \in 1..Len(dex_answers) :
                        /\ dex_answers[i].kind = "amounts"
                        /\ dex_answers[i].amount = best_quote.amount
                        /\ candidates(dex_request)[i].dex = best_quote.dex
                        /\ candidates(dex_request)[i].path = best_quote.path

\* a router call raised, a later path of the second DEX gave the best
\* amount after a smaller one, and that quote was returned
C25_Witness ==
    /\ dex_result = "quote"
    /\ ~dex_request.exact_out
    /\ Len(dex_answers) = 4
    /\ dex_answers[1].kind = "raises"
    /\ dex_answers[2] = [kind |-> "amounts", amount |-> 0]
    /\ dex_answers[3].kind = "empty"
    /\ dex_answers[4] = [kind |-> "amounts", amount |-> 1]
    /\ best_quote.dex = "sushiswap"
    /\ Len(best_quote.path) = 3

\* ================================================ run_batch_experiments
RunningTasks == {i \in 1..Len(experiments) : task_state[i] = "running"}

\* lines 72-85, parallel == 1: the loop reaches experiment i and awaits it
SequentialStart(i) ==
    /\ batch_pc = "running"
    /\ parallel = 1
    /\ i = Len(results) + 1
    /\ i <= Len(experiments)
    /\ task_state[i] = "created"
    /\ task_state' = [task_state EXCEPT ![i] = "running"]
    /\ UNCHANGED <<parallel, experiments, batch_pc, semaphore, task_results,
                   results>>
    /\ OthersUnchanged("batch")

\* lines 85-96: the awaited experiment returns or raises, and its result is
\* appended
SequentialFinish(i, outcome) ==
    /\ batch_pc = "running"
    /\ parallel = 1
    /\ i <= Len(experiments)
    /\ task_state[i] = "running"
    /\ task_state' = [task_state EXCEPT ![i] = "done"]
    /\ task_results' =
           [task_results EXCEPT
               ![i] = experiment_result(experiments[i], outcome)]
    /\ results' = Append(results, experiment_result(experiments[i], outcome))
    /\ UNCHANGED <<parallel, experiments, batch_pc, semaphore>>
    /\ OthersUnchanged("batch")

\* lines 99-112, parallel # 1: task i of gather enters `async with
\* semaphore` and starts its experiment
Acquire(i) ==
    /\ batch_pc = "running"
    /\ parallel # 1
    /\ i <= Len(experiments)
    /\ task_state[i] = "created"
    /\ ~locked(semaphore)
    /\ semaphore' = semaphore - 1
    /\ task_state' = [task_state EXCEPT ![i] = "running"]
    /\ UNCHANGED <<parallel, experiments, batch_pc, task_results, results>>
    /\ OthersUnchanged("batch")

\* lines 105-120: the experiment of task i returns or raises, the task
\* returns its dict and leaves the `async with`
Release(i, outcome) ==
    /\ batch_pc = "running"
    /\ parallel # 1
    /\ i <= Len(experiments)
    /\ task_state[i] = "running"
    /\ task_state' = [task_state EXCEPT ![i] = "done"]
    /\ task_results' =
           [task_results EXCEPT
               ![i] = experiment_result(experiments[i], outcome)]
    /\ semaphore' = semaphore + 1
    /\ UNCHANGED <<parallel, experiments, batch_pc, results>>
    /\ OthersUnchanged("batch")

\* line 126 for gather, whose list follows the order of the tasks, and the
\* end of the loop of line 74
BatchReturn ==
    /\ batch_pc = "running"
    /\ \A i \in 1..Len(experiments) : task_state[i] = "done"
    /\ batch_pc' = "returned"
    /\ results' = IF parallel = 1 THEN results ELSE task_results
    /\ UNCHANGED <<parallel, experiments, semaphore, task_state,
                   task_results>>
    /\ OthersUnchanged("batch")

BatchInit ==
    /\ OthersIdle("batch")
    /\ parallel \in 1..MaxParallel
    /\ \E n_targets \in 1..MaxTargets, n_models \in 1..MaxModels :
          experiments = experiment_matrix(n_targets, n_models)
    /\ batch_pc = "running"
    /\ semaphore = parallel
    /\ task_state = [i \in 1..Len(experiments) |-> "created"]
    /\ task_results = [i \in 1..Len(experiments) |-> NoResult]
    /\ results = <<>>

BatchNext ==
    \/ \E i \in 1..(MaxTargets * MaxModels) : SequentialStart(i)
    \/ \E i \in 1..(MaxTargets * MaxModels), outcome \in ExperimentOutcomes :
          SequentialFinish(i, outcome)
    \/ \E i \in 1..(MaxTargets * MaxModels) : Acquire(i)
    \/ \E i \in 1..(MaxTargets * MaxModels), outcome \in ExperimentOutcomes :
          Release(i, outcome)
    \/ BatchReturn

BatchSpec == BatchInit /\ [][BatchNext]_vars

\* C26: never more than `parallel` experiments run at once; the batch ends
\* with exactly one result per pair of the matrix, at the position of the
\* pair; an experiment that raised has a failed result there, and every
\* other experiment was still run to its own result.
C26_BoundedBatch ==
    /\ Cardinality(RunningTasks) <= parallel
    /\ batch_pc = "returned"
         => /\ Len(results) = Len(experiments)
            /\ \A i \in 1..Len(experiments) :
                  /\ results[i].target = experiments[i].target
                  /\ results[i].model = experiments[i].model
                  /\ results[i] = task_results[i]
                  /\ results[i].error # None => ~results[i].success

\* a batch of four under parallel = 2 returned; its first experiment raised
\* and the later ones have their own results
C26_Witness ==
    /\ batch_pc = "returned"
    /\ parallel = 2
    /\ Len(results) = 4
    /\ results[1].error # None
    /\ results[2].success
    /\ results[4].success

\* ================================================= ConstructorExtractor
ExtractConstructorArgs ==
    /\ ~constructor_args.returned
    /\ constructor_args' =
           extract_constructor_args(creation_code, deployed_code)
    /\ UNCHANGED <<creation_code, deployed_code>>
    /\ OthersUnchanged("extractor")

ExtractorInit ==
    /\ OthersIdle("extractor")
    /\ creation_code \in HexStrings
    /\ deployed_code \in HexStrings
    /\ constructor_args = NotExtracted

ExtractorNext == ExtractConstructorArgs

ExtractorSpec == ExtractorInit /\ [][ExtractorNext]_vars

\* C30: _extract_constructor_args returns the empty string or exactly the
\* last 32 bytes, 64 hex characters, of the creation input, however many
\* words of arguments the creation input carries.
C30_AtMostLastWord ==
    constructor_args.returned
      => \/ constructor_args.empty
         \/ /\ constructor_args.to = creation_code.len
            /\ constructor_args.to - constructor_args.from = WordHex

\* a creation input two words longer than the deployed code gave one word
C30_Witness ==
    /\ constructor_args.returned
    /\ ~constructor_args.empty
    /\ creation_code.len - deployed_code.len = 2 * WordHex
    /\ constructor_args.from = creation_code.len - WordHex

====
